---- MODULE Spec2Model ----
(***************************************************************************)
(* The gossip service of rksync (gossip/service.go) at one node: the       *)
(* channel registry, the chain-state dedup store, the batching emitter,    *)
(* and the handlers handleMessage, gossipBatch, InitializeChannel,         *)
(* CloseChannel and Stop.  The peers, the callers and the clock are the    *)
(* environment: every handler input is drawn from the bounded sets below.  *)
(***************************************************************************)
EXTENDS Integers, Sequences, FiniteSets, TLC

VARIABLES
    stopFlag,            \* gossipService.stopFlag
    channels,            \* gossipService.chanState: chainID -> channel
    chainStateMsgStore,  \* gossipService.chainStateMsgStore
    emitter,             \* gossipService.emitter: the buffered messages
    stopping,            \* discoveryAdapter.stopping
    adopted,             \* history: chainMac -> highest seqNum a channel here ever adopted
    last,                \* the last call at this node and what it did
    registry,            \* channelState: the channel instances it holds
    instances,           \* channel instances created so far
    handler,             \* handleMessage between its lookup and its join
    stopLog,             \* the statements of Stop carried out so far
    closing,             \* discoveryAdapter.close has set stopping and waits for the lock
    toDieChan,           \* gossipService.toDieChan: sentinels it holds
    stopSignal,          \* gossipService.stopSignal: the WaitGroup counter
    loops,               \* where each goroutine of the service is
    presumedDead,        \* gossipService.presumedDead: events it holds
    outCh,               \* Accept's output queues: messages each holds
    idMapper,            \* identity.Identity: PKI-id -> identity
    aliveSet,            \* discovery: the alive peers
    deadSet,             \* discovery: the dead peers
    peerTS,              \* discovery: last timestamp stored, per peer
    age,                 \* time since discovery last stored an alive message, per peer
    seenTS,              \* history: highest timestamp discovery ever accepted, per peer
    conns,               \* the transport's open connections
    callers,             \* where each call of Stop is
    remote               \* the peer pA: its channel, emitter and alive set, and what it sent here

joinVars == <<registry, instances, handler>>
shutdownVars == <<stopLog, closing, toDieChan, stopSignal, loops, presumedDead, outCh>>
discoveryVars == <<idMapper, aliveSet, deadSet, peerTS, age, seenTS, conns>>
\* what the calls on the channel registry, the store and the emitter leave alone
otherVars == <<joinVars, shutdownVars, discoveryVars, callers, remote>>

vars == <<stopFlag, channels, chainStateMsgStore, emitter, stopping, adopted, last,
          joinVars, shutdownVars, discoveryVars, callers, remote>>

----------------------------------------------------------------------------
(* Bounds of the model *)

\* highest seqNum a chain state carries
MaxSeq == 2
\* conf.PropagatePeerNum
PropagatePeerNum == 1
\* conf.PropagateIterations
PropagateIterations == 1
\* conf.MaxPropagationBurstSize
MaxPropagationBurstSize == 1

----------------------------------------------------------------------------
(* Identities, chains, tags *)

selfPKIid == "pB"
Peers == {"pA", "pB", "pC"}
Leaders == {"pA", "pB"}
Chains == {"c1"}
NoChannel == ""
NoPeer == ""

EMPTY == "EMPTY"
CHAN_ONLY == "CHAN_ONLY"

\* channel.GenerateMAC: a collision-free digest of (pkiID, chainID)
GenerateMAC(pkiID, chainID) == <<pkiID, chainID>>
NoMac == <<NoPeer, NoChannel>>

----------------------------------------------------------------------------
(* protos.ChainState: seqNum, chainMac and the signed envelope, which holds *)
(* the ChainStateInfo (leader, members, files).  envOK: the envelope parses; *)
(* signer: the peer whose identity the signature verifies under; infoOK:    *)
(* the payload unmarshals to a ChainStateInfo.                              *)

NoState ==
    [seqNum |-> 0, chainMac |-> NoMac, envOK |-> FALSE, signer |-> NoPeer,
     infoOK |-> FALSE, leader |-> NoPeer, members |-> {}, files |-> {}]

\* states a leader publishes: signed by it, under its MAC, with it as member
HonestStates ==
    UNION {
        {[seqNum |-> n, chainMac |-> GenerateMAC(l, c), envOK |-> TRUE, signer |-> l,
          infoOK |-> TRUE, leader |-> l, members |-> ms, files |-> {}] :
            n \in 1..MaxSeq, c \in Chains, ms \in {{l}, {"pA", "pB"}}} :
        l \in Leaders}

\* one defect each: unparsable envelope, foreign signature, malformed info,
\* MAC of another leader, leader outside the member list, another leader
\* named in the info
DefectiveStates ==
    UNION {
        {[s EXCEPT !.envOK = FALSE],
         [s EXCEPT !.signer = "pC"],
         [s EXCEPT !.infoOK = FALSE],
         [s EXCEPT !.chainMac = GenerateMAC(CHOOSE o \in Leaders : o # s.leader, s.chainMac[2])],
         [s EXCEPT !.members = Peers \ {s.leader}],
         [s EXCEPT !.leader = CHOOSE o \in Leaders : o # s.leader]} :
        s \in {h \in HonestStates : h.members = {"pA", "pB"}}}

ChainStates == HonestStates \cup DefectiveStates

\* the states InitializeChannel is called with: this node's own, one of
\* another leader, and the defective ones of this node's newest
InitStates ==
    {s \in HonestStates : s.members = {"pA", "pB"} /\ (s.leader = selfPKIid \/ s.seqNum = 1)}
    \cup {s \in DefectiveStates :
            /\ s.seqNum = MaxSeq
            /\ (s.signer = selfPKIid \/ s.chainMac = GenerateMAC(selfPKIid, "c1"))}

----------------------------------------------------------------------------
(* protos.ReceivedMessage: the RKSyncMessage (content, tag, channel), the   *)
(* connection it came on (conn: the pki-id of the transport handshake), the *)
(* chain state it carries (state, pull response; a pull request carries the *)
(* chainMac only) and, for a membership request, the embedded self-info.    *)

Msg(content, tag, channel, conn, cs, selfInfo) ==
    [content |-> content, tag |-> tag, channel |-> channel, conn |-> conn,
     cs |-> cs, selfInfo |-> selfInfo]

NoInfo == "none"
NilMsg == Msg("nil", EMPTY, NoChannel, NoPeer, NoState, NoInfo)

\* self-information of a membership request: unparsable, not an alive
\* message, or an alive message of the named peer
SelfInfos == {"unparsable", "notAlive", "pA", "pC"}

Senders == Peers \ {selfPKIid}

\* states carried by inbound messages: what the leaders published, replays
\* included, and two forgeries of pA's newest state (a foreign signature, a
\* malformed ChainStateInfo)
MsgStates ==
    {s \in HonestStates : s.leader = "pA" \/ s.members = {"pA", "pB"}}
    \cup {s \in DefectiveStates :
            /\ s.seqNum = MaxSeq /\ s.leader = "pA" /\ s.chainMac = GenerateMAC("pA", "c1")
            /\ s.envOK /\ s.members = {"pA", "pB"}}

NewestOfA ==
    [seqNum |-> MaxSeq, chainMac |-> GenerateMAC("pA", "c1"), envOK |-> TRUE,
     signer |-> "pA", infoOK |-> TRUE, leader |-> "pA", members |-> {"pA", "pB"},
     files |-> {}]

\* chain states from their leader pA, pA's relayed by pC as well, and one
\* state under each illegal tag
StateMsgs ==
    {Msg("state", CHAN_ONLY, "c1", "pA", s, NoInfo) : s \in MsgStates}
    \cup {Msg("state", CHAN_ONLY, "c1", "pC", s, NoInfo) :
            s \in {h \in HonestStates : h.leader = "pA" /\ h.members = {"pA", "pB"}}}
    \cup {Msg("state", t, c, "pA", NewestOfA, NoInfo) :
            t \in {EMPTY, CHAN_ONLY}, c \in {NoChannel, "c1"}}

\* pull responses with pA's states and the forgeries, pull requests under
\* each tag
PullMsgs ==
    {Msg("statePullRes", CHAN_ONLY, "c1", "pA", s, NoInfo) :
        s \in {h \in MsgStates : h.leader = "pA" /\ h.members = {"pA", "pB"}}}
    \cup {Msg("statePullRes", EMPTY, "c1", "pA", NewestOfA, NoInfo)}
    \cup {Msg("statePullReq", t, "c1", "pA",
               [NoState EXCEPT !.chainMac = GenerateMAC("pA", "c1")], NoInfo) :
            t \in {EMPTY, CHAN_ONLY}}

DiscoveryMsgs ==
    {Msg(k, t, NoChannel, "pA", NoState, NoInfo) :
        k \in {"alive", "memRes"}, t \in {EMPTY, CHAN_ONLY}}
    \cup {Msg("memReq", EMPTY, NoChannel, "pA", NoState, i) : i \in SelfInfos}
    \cup {Msg("memReq", CHAN_ONLY, NoChannel, "pA", NoState, "pA")}

OtherMsgs == {Msg("ack", EMPTY, NoChannel, "pA", NoState, NoInfo), NilMsg}

Msgs == StateMsgs \cup PullMsgs \cup DiscoveryMsgs \cup OtherMsgs

----------------------------------------------------------------------------
(* protos extensions *)

IsChainStateMsg(m) == m.content = "state"

IsAliveMsg(m) == m.content = "alive"

IsChannelRestricted(m) == m.content \in {"state", "statePullReq", "statePullRes"}

IsDiscoveryContent(m) == m.content \in {"alive", "memReq", "memRes"}

IsTagLegal(m) ==
    /\ IsChannelRestricted(m) => (m.tag = CHAN_ONLY /\ m.channel # NoChannel)
    /\ IsDiscoveryContent(m) => m.tag = EMPTY

----------------------------------------------------------------------------
(* lib.MessageStore with the chain-state comparator: per chainMac only the  *)
(* state with the highest seqNum is kept.  An entry is (mac, seqNum).       *)

Entry(cs) == [mac |-> cs.chainMac, seqNum |-> cs.seqNum]

\* does the stored entry e make the new state cs stale?
Supersedes(e, cs) == e.mac = cs.chainMac /\ e.seqNum >= cs.seqNum

\* MessageStore.Add: the value it returns
StoreAdds(store, cs) == ~ \E e \in store : Supersedes(e, cs)

\* MessageStore.Add: the store afterwards
StoreAdd(store, cs) ==
    IF StoreAdds(store, cs)
    THEN {e \in store : e.mac # cs.chainMac} \cup {Entry(cs)}
    ELSE store

----------------------------------------------------------------------------
(* channelState and channel.Channel *)

Channel(leader, state) == [leader |-> leader, state |-> state]

\* channelState.joinChannel: creates the channel if absent
joinChannel(chans, chainID, leader) ==
    IF chainID \in DOMAIN chans
    THEN chans
    ELSE [c \in DOMAIN chans \cup {chainID} |->
            IF c = chainID THEN Channel(leader, NoState) ELSE chans[c]]

\* channelState.removeChannel
removeChannel(chans, chainID) ==
    [c \in DOMAIN chans \ {chainID} |-> chans[c]]

\* channelState.getChannelByChainID: the chainID, or NoChannel for nil
getChannelByChainID(chans, chainID) ==
    IF chainID \in DOMAIN chans THEN chainID ELSE NoChannel

\* channelState.lookupChannelForMsg: the channel whose MAC the message carries
lookupChannelForMsg(chans, m) ==
    IF \E c \in DOMAIN chans : chans[c].state.chainMac = m.cs.chainMac /\ m.cs.chainMac # NoMac
    THEN CHOOSE c \in DOMAIN chans : chans[c].state.chainMac = m.cs.chainMac
    ELSE NoChannel

ChannelAdopts_NoSeqCheck(ch, chainID, m) ==
    /\ m.content \in {"state", "statePullRes"}
    /\ m.cs.envOK /\ m.cs.infoOK
    /\ m.cs.signer = m.cs.leader
    /\ m.cs.chainMac = GenerateMAC(m.cs.leader, chainID)
    /\ selfPKIid \in m.cs.members
    /\ ch.state.chainMac \in {NoMac, m.cs.chainMac}

\* what a channel checks before it adopts a state: the signature is the
\* leader's, the MAC is the leader's MAC of this chain, and this node is a member
ChannelVerifies(chainID, cs) ==
    /\ cs.envOK /\ cs.infoOK
    /\ cs.signer = cs.leader
    /\ cs.chainMac = GenerateMAC(cs.leader, chainID)
    /\ selfPKIid \in cs.members

\* Channel.HandleMessage: a state update or a pull response with a higher
\* seqNum than the local one is verified and adopted; anything else leaves
\* the channel as it is
ChannelAdopts(ch, chainID, m) ==
    /\ m.content \in {"state", "statePullRes"}
    /\ ChannelVerifies(chainID, m.cs)
    /\ ch.state.chainMac \in {NoMac, m.cs.chainMac}
    /\ m.cs.seqNum > ch.state.seqNum

ChannelHandleMessage(ch, chainID, m) ==
    IF ChannelAdopts(ch, chainID, m) THEN [ch EXCEPT !.state = m.cs] ELSE ch

\* Channel.IsMemberInChan
IsMemberInChan(ch, pkiID) == pkiID \in ch.state.members

\* files a channel can hold
Files == {"f1"}

\* Channel.Initialize (leader only): the error, or "nil"
ChannelInitializeErr(ch) == IF ch.leader THEN "nil" ELSE "not-leader"

\* Channel.Initialize: the first state, seqNum 1, signed by this node
ChannelInitialize(ch, chainID, members, files) ==
    IF ChannelInitializeErr(ch) # "nil"
    THEN ch
    ELSE [ch EXCEPT !.state =
            [seqNum |-> 1, chainMac |-> GenerateMAC(selfPKIid, chainID), envOK |-> TRUE,
             signer |-> selfPKIid, infoOK |-> TRUE, leader |-> selfPKIid,
             members |-> members, files |-> files]]

\* Channel.AddMember, Channel.AddFile: the error, or "nil"
ChannelMutateErr(ch) ==
    IF ~ch.leader THEN "not-leader"
    ELSE IF ch.state = NoState THEN "not-initialized"
    ELSE "nil"

\* Channel.AddMember: the member joins the info, seqNum++, re-signed
ChannelAddMember(ch, pkiID) ==
    IF ChannelMutateErr(ch) # "nil"
    THEN ch
    ELSE [ch EXCEPT !.state.seqNum = @ + 1, !.state.members = @ \cup {pkiID},
                    !.state.signer = selfPKIid]

\* Channel.AddFile: the file joins the info, seqNum++, re-signed
ChannelAddFile(ch, file) ==
    IF ChannelMutateErr(ch) # "nil"
    THEN ch
    ELSE [ch EXCEPT !.state.seqNum = @ + 1, !.state.files = @ \cup {file},
                    !.state.signer = selfPKIid]

----------------------------------------------------------------------------
(* The goroutines of the service, identities and timestamps *)

\* the forwarding goroutines Accept started
Forwarders == {"fwd1"}
\* the loops NewGossipService counts in stopSignal
CountedLoops == {"acceptMessages", "handlePresumedDead"}
Goroutines == CountedLoops \cup Forwarders \cup {"syncDiscovery"}

\* the calls of Stop that run side by side
Callers == {"stop1", "stop2"}

NoHandler == [pc |-> "idle", chainID |-> NoChannel, known |-> FALSE, result |-> "none"]

\* the identity whose PKI-id is p, a second identity presented under p's
\* PKI-id, and no identity
IdentityOf(p) == <<p, "cert">>
ForgedFor(p) == <<p, "other-cert">>
NoIdentity == <<NoPeer, "">>

\* PeerTime (incNum, seqNum) and the absence of one
NoTS == <<0, 0>>

----------------------------------------------------------------------------
(* The record of the last call *)

Idle ==
    [op |-> "none", m |-> NilMsg, chainID |-> NoChannel, mac |-> NoMac,
     err |-> "nil", emitted |-> FALSE, added |-> FALSE, joined |-> FALSE,
     target |-> NoChannel,
     forwarded |-> FALSE, membership |-> {}, sent |-> <<>>,
     arg |-> "", ret |-> NoState]

Macs == {GenerateMAC(l, c) : l \in Leaders, c \in Chains}

Max(S) == CHOOSE x \in S : \A y \in S : y <= x

\* the history after a call that left the registry as chans; it is kept for
\* the chainMacs in its domain
Adopted(hist, chans) ==
    [mac \in DOMAIN hist |->
        Max({hist[mac]} \cup {chans[c].state.seqNum :
                c \in {d \in DOMAIN chans : chans[d].state.chainMac = mac}})]

\* channelState as newChannelState leaves it
InitJoin ==
    /\ registry = {}
    /\ instances = 0
    /\ handler = NoHandler

\* the goroutines NewGossipService and Accept start, at their loops
InitShutdown ==
    /\ stopLog = <<>>
    /\ closing = FALSE
    /\ toDieChan = 0
    /\ stopSignal = Cardinality(CountedLoops)
    /\ loops = [g \in Goroutines |-> "select"]
    /\ presumedDead = 0
    /\ outCh = [g \in Forwarders |-> 0]
    /\ callers = [c \in Callers |-> "idle"]

\* discovery and the identity mapper of a node that has met nobody
InitDiscovery ==
    /\ idMapper = [p \in Peers |-> IF p = selfPKIid THEN IdentityOf(p) ELSE NoIdentity]
    /\ aliveSet = {}
    /\ deadSet = {}
    /\ peerTS = [p \in Senders |-> NoTS]
    /\ age = [p \in Senders |-> 0]
    /\ seenTS = [p \in Senders |-> NoTS]
    /\ conns = {}

\* the peer pA before it has met this node or created a channel
NoRemote == [state |-> NoState, emitter |-> <<>>, alive |-> {}, wire |-> {}]

InitRemote == remote = NoRemote

Init ==
    /\ stopFlag = 0
    /\ channels = [c \in {} |-> Channel(FALSE, NoState)]
    /\ chainStateMsgStore = {}
    /\ emitter = <<>>
    /\ stopping = 0
    /\ adopted = [mac \in {} |-> 0]
    /\ last = Idle
    /\ InitJoin /\ InitShutdown /\ InitDiscovery /\ InitRemote

\* the same, with the history of adopted states kept for every chainMac
InitHistory ==
    /\ stopFlag = 0
    /\ channels = [c \in {} |-> Channel(FALSE, NoState)]
    /\ chainStateMsgStore = {}
    /\ emitter = <<>>
    /\ stopping = 0
    /\ adopted = [mac \in Macs |-> 0]
    /\ last = Idle
    /\ InitJoin /\ InitShutdown /\ InitDiscovery /\ InitRemote

\* gossipService.toDie
toDie == stopFlag = 1

----------------------------------------------------------------------------
(* The batching emitter: Add buffers a message with its routing filter (the *)
(* set of peers the filter accepts) and PropagateIterations bursts to go; a *)
(* burst is due at the latest when MaxPropagationBurstSize messages wait.   *)

Emitted(content, channel, filter, members) ==
    [content |-> content, channel |-> channel, filter |-> filter,
     members |-> members, iter |-> PropagateIterations]

\* the emittedRKSyncMessage handleMessage builds: filter "not the sender"
EmittedFrom(m) ==
    Emitted(m.content, m.channel, Peers \ {m.conn},
            IF m.cs.infoOK THEN m.cs.members ELSE {})

EmitterHasRoom == Len(emitter) < MaxPropagationBurstSize

\* batchingEmitter.Add
EmitterAdd(buf, e) == IF PropagateIterations = 0 THEN buf ELSE Append(buf, e)

----------------------------------------------------------------------------
(* handleMessage and its helpers *)

validateMsg_AcceptAll(m) == TRUE

\* gossipService.validateMsg
validateMsg(m) == IsTagLegal(m)

isInChannel_Always(m) == TRUE

\* gossipService.isInChannel
isInChannel(m) == m.cs.infoOK /\ selfPKIid \in m.cs.members

\* selectOnlyDiscoveryMessages
selectOnlyDiscoveryMessages(m) == m.content \in {"alive", "memRes", "memReq"}

memReqSelfInfoOK_NoHandshakeCheck(m) ==
    /\ m.selfInfo # "unparsable"
    /\ m.selfInfo # "notAlive"

\* handleMessage's check of a membership request: the self-information
\* parses, is an alive message, and carries the pki-id of the connection
memReqSelfInfoOK(m) ==
    /\ m.selfInfo # "unparsable"
    /\ m.selfInfo # "notAlive"
    /\ m.selfInfo = m.conn

\* gossipService.forwardDiscoveryMsg: does the message reach incChan?
forwardDiscoveryMsg(m) == stopping # 1

\* handleMessage, chain-state branch after the store's Add: look the
\* channel up, join as follower when there is none and this node is in the
\* declared member list, and hand the message to the channel.
\* The registry afterwards and the channel the message went to.
resolveChannelWith(chans, m, gate) ==
    LET gc     == lookupChannelForMsg(chans, m)
        joins  == gate /\ gc = NoChannel /\ isInChannel(m)
        chans1 == IF joins THEN joinChannel(chans, m.channel, FALSE) ELSE chans
        target == IF ~gate THEN NoChannel
                  ELSE IF gc # NoChannel THEN gc
                  ELSE IF joins THEN m.channel
                  ELSE NoChannel
    IN  [chans  |-> IF target # NoChannel
                    THEN [chans1 EXCEPT ![target] = ChannelHandleMessage(@, target, m)]
                    ELSE chans1,
         target |-> target]

resolveChannel_IgnoreAdded(chans, m, added) == resolveChannelWith(chans, m, TRUE)

resolveChannel(chans, m, added) == resolveChannelWith(chans, m, added)

deliverRestricted_Joins(chans, m) == resolveChannelWith(chans, m, TRUE)

\* handleMessage, channel-restricted branch: deliver to the channel the
\* message resolves to, if there is one
deliverRestricted(chans, m) ==
    LET gc == lookupChannelForMsg(chans, m)
    IN  [chans  |-> IF gc # NoChannel
                    THEN [chans EXCEPT ![gc] = ChannelHandleMessage(@, gc, m)]
                    ELSE chans,
         target |-> gc]

\* handleMessage, discovery branch: is the message forwarded?
forwardsToDiscovery(m) ==
    /\ selectOnlyDiscoveryMessages(m)
    /\ m.content = "memReq" => memReqSelfInfoOK(m)
    /\ forwardDiscoveryMsg(m)

Handled(m) == [Idle EXCEPT !.op = "handleMessage", !.m = m]

\* gossipService.handleMessage
handleMessage(m) ==
    /\ UNCHANGED otherVars
    /\ IF toDie \/ m = NilMsg \/ ~validateMsg(m)
       THEN /\ last' = Handled(m)
            /\ UNCHANGED <<stopFlag, channels, chainStateMsgStore, emitter, stopping, adopted>>
       ELSE IF IsChainStateMsg(m)
       THEN LET added == StoreAdds(chainStateMsgStore, m.cs)
                r     == resolveChannel(channels, m, added)
            IN  /\ EmitterHasRoom
                /\ emitter' = EmitterAdd(emitter, EmittedFrom(m))
                /\ chainStateMsgStore' = StoreAdd(chainStateMsgStore, m.cs)
                /\ channels' = r.chans
                /\ adopted' = Adopted(adopted, r.chans)
                /\ last' = [Handled(m) EXCEPT !.emitted = (emitter' # emitter),
                                              !.added = added,
                                              !.joined = (DOMAIN r.chans # DOMAIN channels),
                                              !.target = r.target]
                /\ UNCHANGED <<stopFlag, stopping>>
       ELSE IF IsChannelRestricted(m)
       THEN LET r == deliverRestricted(channels, m)
            IN  /\ channels' = r.chans
                /\ adopted' = Adopted(adopted, r.chans)
                /\ last' = [Handled(m) EXCEPT !.joined = (DOMAIN r.chans # DOMAIN channels),
                                              !.target = r.target]
                /\ UNCHANGED <<stopFlag, chainStateMsgStore, emitter, stopping>>
       ELSE /\ last' = [Handled(m) EXCEPT !.forwarded = forwardsToDiscovery(m)]
            /\ UNCHANGED <<stopFlag, channels, chainStateMsgStore, emitter, stopping, adopted>>

\* acceptMessages: one message off the inbound queue
acceptMessages == \E m \in Msgs : handleMessage(m)

----------------------------------------------------------------------------
(* gossipBatch *)

Range(q) == {q[i] : i \in DOMAIN q}

Min(a, b) == IF a <= b THEN a ELSE b

\* filter.SelectPeers: up to k members the filter accepts, in random order,
\* none twice.  The results it can give.
SelectPeers(k, membership, selector) ==
    LET pool == membership \cap selector
        n    == Min(k, Cardinality(pool))
    IN  {q \in [1..n -> pool] : \A i, j \in 1..n : q[i] = q[j] => i = j}

peerSelector_IgnoreFilter(e, chans) == Peers

\* the peers the routing filter of an emitted message accepts: for a chain
\* state the message's own filter, combined with the local channel's
\* IsMemberInChan when the node has a channel of that chainID
peerSelector(e, chans) ==
    IF e.content = "state"
    THEN LET gc == getChannelByChainID(chans, e.channel)
         IN  IF gc # NoChannel
             THEN {p \in e.filter : IsMemberInChan(chans[gc], p)}
             ELSE e.filter
    ELSE e.filter

RECURSIVE SendAll(_, _, _)
\* srv.Send for each message of es in turn: the send logs that can result
SendAll(es, membership, chans) ==
    IF es = <<>>
    THEN {<<>>}
    ELSE {<<[e |-> Head(es), peers |-> q]>> \o rest :
            q \in SelectPeers(PropagatePeerNum, membership, peerSelector(Head(es), chans)),
            rest \in SendAll(Tail(es), membership, chans)}

IsStateEntry(e) == e.content = "state"
IsAliveEntry(e) == e.content = "alive"
IsOtherEntry(e) == e.content # "state"

gossipBatch_AlivesOnly(msgs, membership, chans) ==
    SendAll(SelectSeq(SelectSeq(msgs, IsOtherEntry), IsAliveEntry), membership, chans)

\* gossipService.gossipBatch: chain states first, then the alive messages;
\* anything else is logged and skipped
gossipBatch(msgs, membership, chans) ==
    SendAll(SelectSeq(msgs, IsStateEntry)
              \o SelectSeq(SelectSeq(msgs, IsOtherEntry), IsAliveEntry),
            membership, chans)

Requeue_KeepSpent(buf) == [i \in DOMAIN buf |-> [buf[i] EXCEPT !.iter = @ - 1]]

RECURSIVE Requeue(_)
\* the emitter after a burst: one iteration less, spent messages evicted
Requeue(buf) ==
    IF buf = <<>>
    THEN <<>>
    ELSE (IF Head(buf).iter > 1
          THEN <<[Head(buf) EXCEPT !.iter = @ - 1]>>
          ELSE <<>>) \o Requeue(Tail(buf))

\* discovery's view of the alive peers, as GetMembership returns it
Memberships == SUBSET Senders

\* gossipService.sendGossipBatch: the emitter's burst
sendGossipBatch ==
    /\ UNCHANGED otherVars
    /\ /\ ~toDie
       /\ emitter # <<>>
       /\ \E membership \in Memberships :
            \E log \in gossipBatch(emitter, membership, channels) :
               last' = [Idle EXCEPT !.op = "gossipBatch", !.membership = membership,
                                    !.sent = log]
       /\ emitter' = Requeue(emitter)
       /\ UNCHANGED <<stopFlag, channels, chainStateMsgStore, stopping, adopted>>

\* discoveryAdapter.Gossip: discovery publishes an alive message to all
Gossip ==
    /\ UNCHANGED otherVars
    /\ /\ stopping # 1
       /\ EmitterHasRoom
       /\ emitter' = EmitterAdd(emitter, Emitted("alive", NoChannel, Peers, {}))
       /\ last' = [Idle EXCEPT !.op = "Gossip"]
       /\ UNCHANGED <<stopFlag, channels, chainStateMsgStore, stopping, adopted>>

\* discoveryAdapter.Forward: discovery relays an alive message to all but
\* the peer it came from
Forward ==
    /\ UNCHANGED otherVars
    /\ /\ stopping # 1
       /\ EmitterHasRoom
       /\ \E p \in Senders :
            emitter' = EmitterAdd(emitter, Emitted("alive", NoChannel, Peers \ {p}, {}))
       /\ last' = [Idle EXCEPT !.op = "Forward"]
       /\ UNCHANGED <<stopFlag, channels, chainStateMsgStore, stopping, adopted>>

----------------------------------------------------------------------------
(* InitializeChannel, CloseChannel, Stop, expiry *)

InitializeChannelErr_NoMacCheck(chainID, cs) ==
    IF chainID = NoChannel THEN "no-chain-id"
    ELSE IF toDie THEN "stopping"
    ELSE IF ~cs.envOK THEN "parse"
    ELSE IF cs.signer # selfPKIid THEN "signature"
    ELSE IF ~cs.infoOK THEN "format"
    ELSE IF cs.leader # selfPKIid THEN "not-leader"
    ELSE "nil"

\* InitializeChannel, the checks before joinChannel: the error, or "nil"
InitializeChannelErr(chainID, cs) ==
    IF chainID = NoChannel THEN "no-chain-id"
    ELSE IF toDie THEN "stopping"
    ELSE IF cs.chainMac # GenerateMAC(selfPKIid, chainID) THEN "mac-mismatch"
    ELSE IF ~cs.envOK THEN "parse"
    ELSE IF cs.signer # selfPKIid THEN "signature"
    ELSE IF ~cs.infoOK THEN "format"
    ELSE IF cs.leader # selfPKIid THEN "not-leader"
    ELSE "nil"

\* Channel.InitializeWithChainState: verify, then adopt as current
InitializeWithChainStateErr(chainID, cs) ==
    IF ChannelVerifies(chainID, cs) THEN "nil" ELSE "init"

InitializeWithChainState(ch, chainID, cs) ==
    IF ChannelVerifies(chainID, cs) THEN [ch EXCEPT !.state = cs] ELSE ch

\* gossipService.InitializeChannel
InitializeChannel(chainID, cs) ==
    /\ UNCHANGED otherVars
    /\ LET err    == InitializeChannelErr(chainID, cs)
           chans1 == joinChannel(channels, chainID, TRUE)
           called == [Idle EXCEPT !.op = "InitializeChannel", !.chainID = chainID,
                                 !.mac = cs.chainMac]
       IN  IF err # "nil"
           THEN /\ last' = [called EXCEPT !.err = err]
                /\ UNCHANGED <<stopFlag, channels, chainStateMsgStore, emitter, stopping, adopted>>
           ELSE /\ channels' = [chans1 EXCEPT ![chainID] = InitializeWithChainState(@, chainID, cs)]
                /\ adopted' = Adopted(adopted, channels')
                /\ last' = [called EXCEPT !.err = InitializeWithChainStateErr(chainID, cs)]
                /\ UNCHANGED <<stopFlag, chainStateMsgStore, emitter, stopping>>

\* the emitted message a channel publishes its state with: to its members
Published(chainID, cs) == Emitted("state", chainID, cs.members, cs.members)

createMembers_None == {}

\* CreateChannel: the member list it hands to Initialize
createMembers == {selfPKIid}

joinAsLeader_Fresh(chans, chainID) ==
    [c \in DOMAIN chans \cup {chainID} |->
        IF c = chainID THEN Channel(TRUE, NoState) ELSE chans[c]]

\* CreateChannel: the channel it initializes
joinAsLeader(chans, chainID) == joinChannel(chans, chainID, TRUE)

\* gossipService.CreateChannel
CreateChannel(chainID, files) ==
    /\ UNCHANGED otherVars
    /\ LET called == [Idle EXCEPT !.op = "CreateChannel", !.chainID = chainID]
           chans1 == joinAsLeader(channels, chainID)
           err    == ChannelInitializeErr(chans1[chainID])
           gc     == ChannelInitialize(chans1[chainID], chainID, createMembers, files)
       IN  IF chainID = NoChannel \/ toDie
           THEN /\ last' = [called EXCEPT !.err = IF chainID = NoChannel
                                                  THEN "no-chain-id" ELSE "stopping"]
                /\ UNCHANGED <<stopFlag, channels, chainStateMsgStore, emitter, stopping, adopted>>
           ELSE IF err # "nil"
           THEN /\ channels' = chans1
                /\ last' = [called EXCEPT !.err = err]
                /\ UNCHANGED <<stopFlag, chainStateMsgStore, emitter, stopping, adopted>>
           ELSE /\ EmitterHasRoom
                /\ channels' = [chans1 EXCEPT ![chainID] = gc]
                /\ emitter' = EmitterAdd(emitter, Published(chainID, gc.state))
                /\ adopted' = Adopted(adopted, channels')
                /\ last' = [called EXCEPT !.ret = gc.state]
                /\ UNCHANGED <<stopFlag, chainStateMsgStore, stopping>>

channelToMutate_Joins(chans, chainID) ==
    [chans |-> joinChannel(chans, chainID, TRUE), gc |-> chainID]

\* AddMemberToChan, AddFileToChan: the channel they act on (gc: NoChannel
\* for nil) and the registry after the lookup
channelToMutate(chans, chainID) ==
    [chans |-> chans, gc |-> getChannelByChainID(chans, chainID)]

\* the common course of AddMemberToChan and AddFileToChan; mutated is the
\* channel after Channel.AddMember or Channel.AddFile
mutateChannel(called, chainID, r, mutated) ==
    /\ UNCHANGED otherVars
    /\ IF r.gc = NoChannel
       THEN /\ channels' = r.chans
            /\ last' = [called EXCEPT !.err = "not-created"]
            /\ UNCHANGED <<stopFlag, chainStateMsgStore, emitter, stopping, adopted>>
       ELSE IF ChannelMutateErr(r.chans[r.gc]) # "nil"
       THEN /\ channels' = r.chans
            /\ last' = [called EXCEPT !.err = ChannelMutateErr(r.chans[r.gc])]
            /\ UNCHANGED <<stopFlag, chainStateMsgStore, emitter, stopping, adopted>>
       ELSE /\ r.chans[r.gc].state.seqNum < MaxSeq
            /\ EmitterHasRoom
            /\ channels' = [r.chans EXCEPT ![r.gc] = mutated]
            /\ emitter' = EmitterAdd(emitter, Published(chainID, mutated.state))
            /\ adopted' = Adopted(adopted, channels')
            /\ last' = [called EXCEPT !.ret = mutated.state]
            /\ UNCHANGED <<stopFlag, chainStateMsgStore, stopping>>

\* gossipService.AddMemberToChan
AddMemberToChan(chainID, member) ==
    LET r == channelToMutate(channels, chainID)
    IN  mutateChannel([Idle EXCEPT !.op = "AddMemberToChan", !.chainID = chainID,
                                   !.arg = member],
                      chainID, r,
                      IF r.gc = NoChannel THEN Channel(FALSE, NoState)
                      ELSE ChannelAddMember(r.chans[r.gc], member))

\* gossipService.AddFileToChan
AddFileToChan(chainID, file) ==
    LET r == channelToMutate(channels, chainID)
    IN  mutateChannel([Idle EXCEPT !.op = "AddFileToChan", !.chainID = chainID,
                                   !.arg = file],
                      chainID, r,
                      IF r.gc = NoChannel THEN Channel(FALSE, NoState)
                      ELSE ChannelAddFile(r.chans[r.gc], file))

\* gossipService.CloseChannel
CloseChannel(chainID) ==
    /\ UNCHANGED otherVars
    /\ /\ channels' = IF chainID = NoChannel THEN channels ELSE removeChannel(channels, chainID)
       /\ last' = [Idle EXCEPT !.op = "CloseChannel", !.chainID = chainID]
       /\ UNCHANGED <<stopFlag, chainStateMsgStore, emitter, stopping, adopted>>

\* the expirable store drops an entry whose time to live has passed
Expire ==
    /\ UNCHANGED otherVars
    /\ /\ \E e \in chainStateMsgStore : chainStateMsgStore' = chainStateMsgStore \ {e}
       /\ last' = [Idle EXCEPT !.op = "Expire"]
       /\ UNCHANGED <<stopFlag, channels, emitter, stopping, adopted>>

\* gossipService.Stop: the flag, the discovery adapter, and the emitter's
\* final burst
Stop ==
    /\ UNCHANGED otherVars
    /\ IF toDie
       THEN /\ last' = [Idle EXCEPT !.op = "Stop"]
            /\ UNCHANGED <<stopFlag, channels, chainStateMsgStore, emitter, stopping, adopted>>
       ELSE /\ stopFlag' = 1
            /\ stopping' = 1
            /\ \E membership \in Memberships :
                 \E log \in gossipBatch(emitter, membership, channels) :
                    last' = [Idle EXCEPT !.op = "Stop", !.membership = membership,
                                         !.sent = log]
            /\ emitter' = <<>>
            /\ UNCHANGED <<channels, chainStateMsgStore, adopted>>

----------------------------------------------------------------------------
Next ==
    \/ acceptMessages
    \/ sendGossipBatch
    \/ Gossip
    \/ Forward
    \/ \E cs \in InitStates : InitializeChannel("c1", cs)
    \/ \E cs \in {s \in InitStates : s.seqNum = 1 /\ s.leader = selfPKIid} :
         InitializeChannel(NoChannel, cs)
    \/ \E chainID \in Chains \cup {NoChannel} : CloseChannel(chainID)
    \/ Expire
    \/ Stop

Spec == Init /\ [][Next]_vars

\* the chain-state traffic and the operations on the registry and the store,
\* with the history of adopted states kept; InitializeChannel is called
\* with well-formed states
NextHistory ==
    \/ \E m \in StateMsgs \cup PullMsgs : handleMessage(m)
    \/ sendGossipBatch
    \/ \E cs \in InitStates \cap HonestStates : InitializeChannel("c1", cs)
    \/ \E chainID \in Chains : CloseChannel(chainID)
    \/ Expire
    \/ Stop

SpecHistory == InitHistory /\ [][NextHistory]_vars

\* the calls that create and change channels, with the chain-state traffic
NextChannel ==
    \/ \E chainID \in Chains \cup {NoChannel}, files \in SUBSET Files :
         CreateChannel(chainID, files)
    \/ \E chainID \in Chains, member \in Peers : AddMemberToChan(chainID, member)
    \/ \E chainID \in Chains, file \in Files : AddFileToChan(chainID, file)
    \/ \E cs \in InitStates : InitializeChannel("c1", cs)
    \/ \E m \in StateMsgs : handleMessage(m)
    \/ \E chainID \in Chains : CloseChannel(chainID)
    \/ sendGossipBatch
    \/ Stop

SpecChannel == Init /\ [][NextChannel]_vars

----------------------------------------------------------------------------
(* The channel registry under concurrent callers.  channelState holds       *)
(* channel instances; joinChannel takes its lock, looks the chainID up and  *)
(* creates an instance only if there is none.  handleMessage runs on the    *)
(* acceptMessages goroutine and does its lookup and its join in two calls,  *)
(* between which CreateChannel, InitializeChannel and CloseChannel of other *)
(* goroutines can run.                                                      *)

\* channel instances the model creates at most
MaxInstances == 3

JoinChains == {"c1", "c2"}

serviceVars == <<stopFlag, channels, chainStateMsgStore, emitter, stopping, adopted, last,
                 callers, remote>>

Instance(id, chainID, leader, mac) ==
    [id |-> id, chainID |-> chainID, leader |-> leader, mac |-> mac]

\* channelState.joinChannel on the instances: the one registered for the
\* chainID stays, a new one is created only if there is none
joinChannelIn(reg, n, chainID, leader, mac) ==
    IF \E i \in reg : i.chainID = chainID
    THEN reg
    ELSE reg \cup {Instance(n + 1, chainID, leader, mac)}

createJoin_NewInstance(reg, n, chainID) ==
    reg \cup {Instance(n + 1, chainID, TRUE, GenerateMAC(selfPKIid, chainID))}

\* CreateChannel, InitializeChannel: joinChannel(chainID, true)
createJoin(reg, n, chainID) ==
    joinChannelIn(reg, n, chainID, TRUE, GenerateMAC(selfPKIid, chainID))

handlerJoin_NewInstance(reg, n, chainID) ==
    reg \cup {Instance(n + 1, chainID, FALSE, GenerateMAC("pA", chainID))}

\* handleMessage: joinChannel(msg.Channel, false), and the new channel
\* adopts the MAC of the state handed to it
handlerJoin(reg, n, chainID) ==
    joinChannelIn(reg, n, chainID, FALSE, GenerateMAC("pA", chainID))

\* a goroutine calls CreateChannel or InitializeChannel
JoinCreate(chainID) ==
    /\ instances < MaxInstances
    /\ registry' = createJoin(registry, instances, chainID)
    /\ instances' = IF registry' = registry THEN instances ELSE instances + 1
    /\ UNCHANGED <<handler, serviceVars, shutdownVars, discoveryVars>>

\* handleMessage, a chain state of pA newly added to the store:
\* lookupChannelForMsg and isInChannel
HandlerLookup(chainID, inChannel) ==
    /\ handler.pc = "idle"
    /\ LET found == \E i \in registry : i.mac = GenerateMAC("pA", chainID)
           known == \E i \in registry : i.chainID = chainID
       IN  handler' = [pc |-> IF ~found /\ inChannel THEN "joining" ELSE "idle",
                       chainID |-> chainID, known |-> known,
                       result |-> IF found THEN "delivered"
                                  ELSE IF inChannel THEN "none" ELSE "dropped"]
    /\ UNCHANGED <<registry, instances, serviceVars, shutdownVars, discoveryVars>>

\* handleMessage: joinChannel after a lookup that found nothing
HandlerJoin ==
    /\ handler.pc = "joining"
    /\ instances < MaxInstances
    /\ registry' = handlerJoin(registry, instances, handler.chainID)
    /\ instances' = IF registry' = registry THEN instances ELSE instances + 1
    /\ handler' = [handler EXCEPT !.pc = "idle",
                                  !.result = IF registry' = registry
                                             THEN "existing" ELSE "created"]
    /\ UNCHANGED <<serviceVars, shutdownVars, discoveryVars>>

\* a goroutine calls CloseChannel: channelState.removeChannel
JoinClose(chainID) ==
    /\ registry' = {i \in registry : i.chainID # chainID}
    /\ UNCHANGED <<instances, handler, serviceVars, shutdownVars, discoveryVars>>

NextJoin ==
    \/ \E chainID \in JoinChains : JoinCreate(chainID)
    \/ \E chainID \in JoinChains, inChannel \in BOOLEAN : HandlerLookup(chainID, inChannel)
    \/ HandlerJoin
    \/ \E chainID \in JoinChains : JoinClose(chainID)

SpecJoin == Init /\ [][NextJoin]_vars

----------------------------------------------------------------------------
(* Shutdown.  Stop runs its statements one at a time while the goroutines   *)
(* of the service run: acceptMessages, handlePresumedDead, syncDiscovery    *)
(* and the forwarder of an Accept call.  toDieChan has capacity 1 and holds *)
(* the sentinel or nothing.  Discovery reads incChan and the presumedDead   *)
(* queue until it is stopped; the transport delivers messages and dead      *)
(* endpoints until it is stopped; the reader of an Accept output queue is   *)
(* the caller of Accept.                                                    *)

\* capacity of the presumedDead queue and of an Accept output queue
presumedDeadChanSize == 1
acceptChanSize == 1

\* the statements of Stop after its toDie check, in the order of the code
StopSteps ==
    <<"flag", "adapter", "discovery", "channels", "broadcast", "emitter",
      "demux", "wait", "transport">>

stopQuiet == <<channels, chainStateMsgStore, emitter, adopted, last, joinVars, discoveryVars,
               callers, remote>>

Done(step) == step \in Range(stopLog)

\* the statement Stop is at
StopAt == IF Len(stopLog) < Len(StopSteps) THEN StopSteps[Len(stopLog) + 1] ELSE "returned"

stopSignalWait_NoWait == TRUE

\* stopSignal.Wait() returns
stopSignalWait == stopSignal = 0

\* g leaves: a counted loop runs its deferred stopSignal.Done()
Exit(g) ==
    /\ loops' = [loops EXCEPT ![g] = "done"]
    /\ stopSignal' = IF g \in CountedLoops THEN stopSignal - 1 ELSE stopSignal

\* Stop: atomic.StoreInt32(&g.stopFlag, 1)
StopFlag ==
    /\ StopAt = "flag" /\ ~toDie
    /\ stopFlag' = 1
    /\ stopLog' = Append(stopLog, "flag")
    /\ UNCHANGED <<stopping, closing, toDieChan, stopSignal, loops, presumedDead, outCh, stopQuiet>>

\* discoveryAdapter.close: atomic.StoreInt32(&da.stopping, 1)
StopAdapterStore ==
    /\ StopAt = "adapter" /\ ~closing
    /\ stopping' = 1
    /\ closing' = TRUE
    /\ UNCHANGED <<stopFlag, stopLog, toDieChan, stopSignal, loops, presumedDead, outCh, stopQuiet>>

\* discoveryAdapter.close: da.Lock() waits for the reader that holds RLock
\* in forwardDiscoveryMsg; close(da.incChan)
StopAdapterClose ==
    /\ StopAt = "adapter" /\ closing
    /\ loops["acceptMessages"] \notin {"locked", "forwarding"}
    /\ closing' = FALSE
    /\ stopLog' = Append(stopLog, "adapter")
    /\ UNCHANGED <<stopFlag, stopping, toDieChan, stopSignal, loops, presumedDead, outCh, stopQuiet>>

\* Stop: g.toDieChan <- struct{}{}
StopBroadcast ==
    /\ StopAt = "broadcast"
    /\ toDieChan = 0
    /\ toDieChan' = 1
    /\ stopLog' = Append(stopLog, "broadcast")
    /\ UNCHANGED <<stopFlag, stopping, closing, stopSignal, loops, presumedDead, outCh, stopQuiet>>

\* Stop: g.stopSignal.Wait()
StopWait ==
    /\ StopAt = "wait"
    /\ stopSignalWait
    /\ stopLog' = Append(stopLog, "wait")
    /\ UNCHANGED <<stopFlag, stopping, closing, toDieChan, stopSignal, loops, presumedDead, outCh, stopQuiet>>

\* Stop: disc.Stop(), chanState.stop(), emitter.Stop(),
\* ChannelDeMultiplexer.Close(), srv.Stop()
StopOther ==
    /\ StopAt \in {"discovery", "channels", "emitter", "demux", "transport"}
    /\ stopLog' = Append(stopLog, StopAt)
    /\ UNCHANGED <<stopFlag, stopping, closing, toDieChan, stopSignal, loops, presumedDead, outCh, stopQuiet>>

StopStep ==
    StopFlag \/ StopAdapterStore \/ StopAdapterClose \/ StopBroadcast \/ StopWait \/ StopOther

\* case s := <-g.toDieChan
TakeSentinel(g) ==
    /\ loops[g] = "select"
    /\ toDieChan = 1
    /\ toDieChan' = 0
    /\ loops' = [loops EXCEPT ![g] = "holding"]
    /\ UNCHANGED <<stopFlag, stopping, stopLog, closing, stopSignal, presumedDead, outCh, stopQuiet>>

\* g.toDieChan <- s; return
PutSentinelBack(g) ==
    /\ loops[g] = "holding"
    /\ toDieChan = 0
    /\ toDieChan' = 1
    /\ Exit(g)
    /\ UNCHANGED <<stopFlag, stopping, stopLog, closing, presumedDead, outCh, stopQuiet>>

\* acceptMessages: case msg := <-incMsgs, a message for discovery
AcceptMessage ==
    /\ loops["acceptMessages"] = "select"
    /\ ~Done("transport")
    /\ loops' = [loops EXCEPT !["acceptMessages"] = "handling"]
    /\ UNCHANGED <<stopFlag, stopping, stopLog, closing, toDieChan, stopSignal, presumedDead, outCh, stopQuiet>>

\* forwardDiscoveryMsg: g.discAdapter.RLock(), which waits while close
\* waits for or holds the lock
ForwardRLock ==
    /\ loops["acceptMessages"] = "handling"
    /\ ~closing
    /\ loops' = [loops EXCEPT !["acceptMessages"] = "locked"]
    /\ UNCHANGED <<stopFlag, stopping, stopLog, closing, toDieChan, stopSignal, presumedDead, outCh, stopQuiet>>

ForwardToDiscovery_NoCheck ==
    /\ loops["acceptMessages"] = "locked"
    /\ loops' = [loops EXCEPT !["acceptMessages"] = "forwarding"]
    /\ UNCHANGED <<stopFlag, stopping, stopLog, closing, toDieChan, stopSignal, presumedDead, outCh, stopQuiet>>

\* forwardDiscoveryMsg under RLock: return (and RUnlock) if the adapter is
\* stopping, else send on incChan
ForwardToDiscovery ==
    /\ loops["acceptMessages"] = "locked"
    /\ loops' = [loops EXCEPT !["acceptMessages"] =
                      IF stopping = 1 THEN "select" ELSE "forwarding"]
    /\ UNCHANGED <<stopFlag, stopping, stopLog, closing, toDieChan, stopSignal, presumedDead, outCh, stopQuiet>>

\* discovery receives from incChan; forwardDiscoveryMsg returns and
\* releases RLock
DiscoveryReceives ==
    /\ loops["acceptMessages"] = "forwarding"
    /\ ~Done("discovery")
    /\ loops' = [loops EXCEPT !["acceptMessages"] = "select"]
    /\ UNCHANGED <<stopFlag, stopping, stopLog, closing, toDieChan, stopSignal, presumedDead, outCh, stopQuiet>>

\* handlePresumedDead: case deadEndpoint := <-g.srv.PresumedDead()
TakeDeadEndpoint ==
    /\ loops["handlePresumedDead"] = "select"
    /\ ~Done("transport")
    /\ loops' = [loops EXCEPT !["handlePresumedDead"] = "sending"]
    /\ UNCHANGED <<stopFlag, stopping, stopLog, closing, toDieChan, stopSignal, presumedDead, outCh, stopQuiet>>

\* handlePresumedDead: g.presumedDead <- deadEndpoint
SendDeadEndpoint ==
    /\ loops["handlePresumedDead"] = "sending"
    /\ presumedDead < presumedDeadChanSize
    /\ presumedDead' = presumedDead + 1
    /\ loops' = [loops EXCEPT !["handlePresumedDead"] = "select"]
    /\ UNCHANGED <<stopFlag, stopping, stopLog, closing, toDieChan, stopSignal, outCh, stopQuiet>>

\* discovery receives from the presumedDead queue
DiscoveryTakesDead ==
    /\ presumedDead > 0
    /\ ~Done("discovery")
    /\ presumedDead' = presumedDead - 1
    /\ UNCHANGED <<stopFlag, stopping, stopLog, closing, toDieChan, stopSignal, loops, outCh, stopQuiet>>

\* The forwarder of Accept: case m := <-inCh, a message
ForwarderTakes(g) ==
    /\ loops[g] = "select"
    /\ ~Done("demux")
    /\ loops' = [loops EXCEPT ![g] = "sending"]
    /\ UNCHANGED <<stopFlag, stopping, stopLog, closing, toDieChan, stopSignal, presumedDead, outCh, stopQuiet>>

\* The forwarder of Accept: case m := <-inCh on the closed inCh, m == nil
ForwarderInClosed(g) ==
    /\ loops[g] = "select"
    /\ Done("demux")
    /\ Exit(g)
    /\ UNCHANGED <<stopFlag, stopping, stopLog, closing, toDieChan, presumedDead, outCh, stopQuiet>>

\* The forwarder of Accept: outCh <- m
ForwarderSends(g) ==
    /\ loops[g] = "sending"
    /\ outCh[g] < acceptChanSize
    /\ outCh' = [outCh EXCEPT ![g] = @ + 1]
    /\ loops' = [loops EXCEPT ![g] = "select"]
    /\ UNCHANGED <<stopFlag, stopping, stopLog, closing, toDieChan, stopSignal, presumedDead, stopQuiet>>

\* the caller of Accept receives from outCh
AcceptReaderTakes(g) ==
    /\ outCh[g] > 0
    /\ outCh' = [outCh EXCEPT ![g] = @ - 1]
    /\ UNCHANGED <<stopFlag, stopping, stopLog, closing, toDieChan, stopSignal, loops, presumedDead, stopQuiet>>

\* syncDiscovery: for !g.toDie()
syncDiscovery ==
    /\ loops["syncDiscovery"] = "select"
    /\ IF toDie
       THEN Exit("syncDiscovery")
       ELSE /\ loops' = [loops EXCEPT !["syncDiscovery"] = "syncing"]
            /\ UNCHANGED stopSignal
    /\ UNCHANGED <<stopFlag, stopping, stopLog, closing, toDieChan, presumedDead, outCh, stopQuiet>>

\* syncDiscovery: g.disc.InitiateSync(...); time.Sleep(...)
InitiateSync ==
    /\ loops["syncDiscovery"] = "syncing"
    /\ loops' = [loops EXCEPT !["syncDiscovery"] = "select"]
    /\ UNCHANGED <<stopFlag, stopping, stopLog, closing, toDieChan, stopSignal, presumedDead, outCh, stopQuiet>>

\* the goroutines whose loop selects on toDieChan
Selecting == CountedLoops \cup Forwarders

NextStop ==
    \/ StopStep
    \/ \E g \in Selecting : TakeSentinel(g)
    \/ \E g \in Selecting : PutSentinelBack(g)
    \/ AcceptMessage
    \/ ForwardRLock
    \/ ForwardToDiscovery
    \/ DiscoveryReceives
    \/ TakeDeadEndpoint
    \/ SendDeadEndpoint
    \/ DiscoveryTakesDead
    \/ \E g \in Forwarders : ForwarderTakes(g)
    \/ \E g \in Forwarders : ForwarderInClosed(g)
    \/ \E g \in Forwarders : ForwarderSends(g)
    \/ \E g \in Forwarders : AcceptReaderTakes(g)
    \/ syncDiscovery
    \/ InitiateSync

\* What the scheduler guarantees: a statement that can run does run, and a
\* goroutine waiting in a select whose toDieChan case is ready again and
\* again gets the sentinel.  Nothing makes the transport deliver or the
\* caller of Accept read.
FairStop ==
    /\ WF_vars(StopStep)
    /\ \A g \in Selecting : SF_vars(TakeSentinel(g))
    /\ \A g \in Selecting : WF_vars(PutSentinelBack(g))
    /\ WF_vars(ForwardRLock)
    /\ WF_vars(ForwardToDiscovery)
    /\ WF_vars(DiscoveryReceives)
    /\ WF_vars(SendDeadEndpoint)
    /\ WF_vars(DiscoveryTakesDead)
    /\ \A g \in Forwarders : WF_vars(ForwarderSends(g))
    /\ \A g \in Forwarders : WF_vars(ForwarderInClosed(g))
    /\ WF_vars(syncDiscovery)
    /\ WF_vars(InitiateSync)

SpecStop == Init /\ [][NextStop]_vars /\ FairStop

----------------------------------------------------------------------------
(* Stop called more than once, the calls side by side.  Each call runs the  *)
(* statements of Stop in order; stopLog holds the statements all calls have *)
(* carried out.                                                             *)

callQuiet == <<channels, chainStateMsgStore, emitter, adopted, last, joinVars, discoveryVars,
               closing, stopSignal, loops, presumedDead, outCh, remote>>

\* Stop: if g.toDie() { return }
StopEnter(c) ==
    /\ callers[c] = "idle"
    /\ callers' = [callers EXCEPT ![c] = IF toDie THEN "returned" ELSE StopSteps[1]]
    /\ UNCHANGED <<stopFlag, stopping, stopLog, toDieChan, callQuiet>>

\* the statement after step, or the return of Stop
StopAfter(step) ==
    LET i == CHOOSE j \in DOMAIN StopSteps : StopSteps[j] = step
    IN  IF i < Len(StopSteps) THEN StopSteps[i + 1] ELSE "returned"

\* Stop: the statement call c is at.  close(da.incChan) on the closed
\* channel panics; the send on toDieChan waits while it holds a sentinel.
StopRun(c) ==
    LET step == callers[c]
    IN  /\ step \in Range(StopSteps)
        /\ step = "adapter" => loops["acceptMessages"] \notin {"locked", "forwarding"}
        /\ step = "broadcast" => toDieChan = 0
        /\ step = "wait" => stopSignalWait
        /\ stopFlag' = IF step = "flag" THEN 1 ELSE stopFlag
        /\ stopping' = IF step = "adapter" THEN 1 ELSE stopping
        /\ toDieChan' = IF step = "broadcast" THEN 1 ELSE toDieChan
        /\ stopLog' = Append(stopLog, step)
        /\ callers' = [callers EXCEPT ![c] = IF step = "adapter" /\ Done("adapter")
                                             THEN "panic"
                                             ELSE StopAfter(step)]
        /\ UNCHANGED callQuiet

NextStopTwice ==
    \/ \E c \in Callers : StopEnter(c)
    \/ \E c \in Callers : StopRun(c)
    \/ \E g \in Selecting : TakeSentinel(g)
    \/ \E g \in Selecting : PutSentinelBack(g)
    \/ \E g \in Forwarders : ForwarderInClosed(g)
    \/ syncDiscovery
    \/ InitiateSync

SpecStopTwice == Init /\ [][NextStopTwice]_vars

----------------------------------------------------------------------------
(* Discovery and the identity mapper.  Discovery keeps the alive set, the   *)
(* dead set and the last timestamp of each peer; it hands every inbound     *)
(* alive message to ValidateAliveMsg of the security adapter first.  Time   *)
(* passes in ticks; age is the number of ticks since a peer was last seen.  *)

\* highest incNum and seqNum of a PeerTime
MaxInc == 2
MaxPeerSeq == 2

\* the timeouts of discovery, in ticks
aliveExpirationTimeout == 1
msgExpirationFactor == 2

MaxAge == aliveExpirationTimeout * msgExpirationFactor + 1

\* the peers whose alive messages arrive
AlivePeers == {"pA"}

PeerTimes == (1..MaxInc) \X (1..MaxPeerSeq)

\* PeerTime comparison: lexicographic on (incNum, seqNum)
TSGreater_SeqOnly(a, b) == a[2] > b[2]

TSGreater(a, b) == a[1] > b[1] \/ (a[1] = b[1] /\ a[2] > b[2])

TSMax(a, b) == IF TSGreater(b, a) THEN b ELSE a

pkiIdOf(identity) == identity[1]

\* an alive message: the PKI-id and timestamp it announces, the identity
\* it carries (or none), who signed it (or nobody), and the peer whose
\* connection delivered it
AliveMsg(pkiID, ts, identity, signedBy, via) ==
    [pkiID |-> pkiID, ts |-> ts, identity |-> identity, signedBy |-> signedBy, via |-> via]

\* the messages that arrive: signed by the peer's identity or by a forged
\* one, carrying either or none, and one that is not signed
AliveMsgs ==
    {AliveMsg(p, ts, id, by, via) :
        p \in AlivePeers, ts \in PeerTimes,
        id \in {NoIdentity, IdentityOf("pA"), ForgedFor("pA")},
        by \in {IdentityOf("pA"), ForgedFor("pA")},
        via \in AlivePeers}
    \cup {AliveMsg(p, ts, NoIdentity, NoIdentity, via) :
        p \in AlivePeers, ts \in PeerTimes, via \in AlivePeers}

\* identity.Put: the identity must hash to the PKI-id; a PKI-id bound to
\* another identity is a conflict; binding the same identity again is fine
PutErr(ids, pkiID, identity) ==
    IF pkiIdOf(identity) # pkiID THEN "mismatch"
    ELSE IF ids[pkiID] # NoIdentity /\ ids[pkiID] # identity THEN "identity-conflict"
    ELSE "nil"

Put(ids, pkiID, identity) ==
    IF PutErr(ids, pkiID, identity) = "nil" THEN [ids EXCEPT ![pkiID] = identity] ELSE ids

\* the error of the Put that ValidateAliveMsg makes for m, if it makes one
PutOf(m, ids) ==
    IF m.signedBy # NoIdentity /\ m.identity # NoIdentity
    THEN PutErr(ids, m.pkiID, m.identity)
    ELSE "none"

\* identity.Verify: the signature is the one of the identity bound to pkiID
Verify(ids, pkiID, signedBy) == ids[pkiID] # NoIdentity /\ signedBy = ids[pkiID]

ValidateAliveMsg_NoPut(m, ids) ==
    IF m.signedBy = NoIdentity
    THEN [ok |-> FALSE, ids |-> ids]
    ELSE [ok |-> Verify(ids, m.pkiID, m.signedBy), ids |-> ids]

\* discoverySecurityAdapter.ValidateAliveMsg: the verdict and the identity
\* mapper after it
ValidateAliveMsg(m, ids) ==
    IF m.signedBy = NoIdentity
    THEN [ok |-> FALSE, ids |-> ids]
    ELSE IF m.identity # NoIdentity
    THEN IF PutErr(ids, m.pkiID, m.identity) # "nil"
         THEN [ok |-> FALSE, ids |-> ids]
         ELSE [ok |-> Verify(Put(ids, m.pkiID, m.identity), m.pkiID, m.signedBy),
               ids |-> Put(ids, m.pkiID, m.identity)]
    ELSE [ok |-> Verify(ids, m.pkiID, m.signedBy), ids |-> ids]

PeersView_EverSeen == {p \in Senders : seenTS[p] # NoTS}

\* gossipService.Peers: nothing once stopped, else discovery's membership
PeersView == IF toDie THEN {} ELSE aliveSet

discQuiet == <<stopFlag, channels, chainStateMsgStore, emitter, stopping, adopted,
               joinVars, shutdownVars, callers, remote>>

Known == aliveSet \cup deadSet

\* discovery handles an inbound alive message
handleAliveMsg(m) ==
    /\ ~toDie
    /\ m.via \in conns
    /\ LET v == ValidateAliveMsg(m, idMapper)
           p == m.pkiID
           fresh == p \notin Known \/ TSGreater(m.ts, peerTS[p])
           outcome == IF ~v.ok THEN "invalid" ELSE IF fresh THEN "stored" ELSE "stale"
       IN  /\ idMapper' = v.ids
           /\ last' = [Idle EXCEPT !.op = "handleAliveMsg", !.err = outcome,
                            !.arg = [pkiID |-> p, ts |-> m.ts, via |-> m.via,
                                     put |-> PutOf(m, idMapper)]]
           /\ IF outcome = "stored"
              THEN /\ aliveSet' = aliveSet \cup {p}
                   /\ deadSet' = deadSet \ {p}
                   /\ peerTS' = [peerTS EXCEPT ![p] = m.ts]
                   /\ age' = [age EXCEPT ![p] = 0]
                   /\ seenTS' = [seenTS EXCEPT ![p] = TSMax(@, m.ts)]
              ELSE UNCHANGED <<aliveSet, deadSet, peerTS, age, seenTS>>
    /\ UNCHANGED <<conns, discQuiet>>

\* a tick of the clock
Tick ==
    /\ \E p \in Known : age[p] < MaxAge
    /\ age' = [p \in Senders |-> IF p \in Known /\ age[p] < MaxAge THEN age[p] + 1 ELSE age[p]]
    /\ last' = [Idle EXCEPT !.op = "Tick"]
    /\ UNCHANGED <<idMapper, aliveSet, deadSet, peerTS, seenTS, conns, discQuiet>>

Expired(p) == p \in Known /\ age[p] > aliveExpirationTimeout

Evicted(p) == p \in Known /\ age[p] > aliveExpirationTimeout * msgExpirationFactor

\* the sweeper of discovery
Sweep ==
    /\ ~toDie
    /\ aliveSet' = {p \in aliveSet : ~Expired(p)}
    /\ deadSet' = {p \in Known : Expired(p) /\ ~Evicted(p)}
    /\ peerTS' = [p \in Senders |-> IF Evicted(p) THEN NoTS ELSE peerTS[p]]
    /\ age' = [p \in Senders |-> IF Evicted(p) THEN 0 ELSE age[p]]
    /\ last' = [Idle EXCEPT !.op = "Sweep"]
    /\ UNCHANGED <<idMapper, seenTS, conns, discQuiet>>

\* a peer opens a connection
Connect(p) ==
    /\ ~toDie
    /\ p \notin conns
    /\ conns' = conns \cup {p}
    /\ last' = [Idle EXCEPT !.op = "Connect"]
    /\ UNCHANGED <<idMapper, aliveSet, deadSet, peerTS, age, seenTS, discQuiet>>

\* the identity mapper purges the identity of p; the notifier given to
\* NewIdentity closes the connection of p
PurgeIdentity(p) ==
    /\ idMapper[p] # NoIdentity
    /\ idMapper' = [idMapper EXCEPT ![p] = NoIdentity]
    /\ conns' = conns \ {p}
    /\ last' = [Idle EXCEPT !.op = "PurgeIdentity"]
    /\ UNCHANGED <<aliveSet, deadSet, peerTS, age, seenTS, discQuiet>>

NextDiscovery ==
    \/ \E m \in AliveMsgs : handleAliveMsg(m)
    \/ Tick
    \/ Sweep
    \/ \E p \in AlivePeers : Connect(p)
    \/ \E p \in AlivePeers : PurgeIdentity(p)
    \/ Stop

SpecDiscovery == Init /\ [][NextDiscovery]_vars

----------------------------------------------------------------------------
(* The batching emitter of a service configured with more than one          *)
(* propagation iteration: discovery adds alive messages, the emitter bursts *)
(* and re-queues, Stop drains a last burst.                                 *)

\* gConf.PropagateIterations of this configuration, and the messages the
\* emitter buffers at most
EmitterIterations == 2
MaxBuffered == 2

\* discoveryAdapter.Gossip (to all) and Forward (to all but the peer the
\* message came from) with EmitterIterations bursts to go
EmitterGossip(from) ==
    /\ stopping # 1
    /\ Len(emitter) < MaxBuffered
    /\ emitter' = Append(emitter,
                     [Emitted("alive", NoChannel, Peers \ {from}, {})
                        EXCEPT !.iter = EmitterIterations])
    /\ last' = [Idle EXCEPT !.op = "Gossip"]
    /\ UNCHANGED <<stopFlag, channels, chainStateMsgStore, stopping, adopted, otherVars>>

NextEmitter ==
    \/ \E from \in Senders \cup {NoPeer} : EmitterGossip(from)
    \/ sendGossipBatch
    \/ Stop

SpecEmitter == Init /\ [][NextEmitter]_vars

----------------------------------------------------------------------------
(* Two nodes.  The peer pA runs the same service: it is the leader that     *)
(* creates channel c1 and adds this node to it.  remote holds pA's channel  *)
(* state, its emitter, its alive set and the messages its transport has     *)
(* sent to this node; a message sent is delivered, possibly more than once. *)

remoteQuiet == <<stopFlag, channels, chainStateMsgStore, emitter, stopping, adopted, last,
                 joinVars, shutdownVars, discoveryVars, callers>>

\* Channel.Initialize at pA, called by pA's CreateChannel
RemoteInitialize(chainID) ==
    [seqNum |-> 1, chainMac |-> GenerateMAC("pA", chainID), envOK |-> TRUE,
     signer |-> "pA", infoOK |-> TRUE, leader |-> "pA", members |-> {"pA"},
     files |-> {}]

\* Channel.AddMember at pA
RemoteAddMember(cs, pkiID) ==
    [cs EXCEPT !.seqNum = @ + 1, !.members = @ \cup {pkiID}]

\* the emitted message pA's channel publishes cs with, and the state in it
RemotePublished(chainID, cs) ==
    [content |-> "state", channel |-> chainID, filter |-> cs.members,
     members |-> cs.members, iter |-> PropagateIterations, cs |-> cs]

\* pA's registry
RemoteChannels ==
    IF remote.state = NoState
    THEN [c \in {} |-> Channel(TRUE, NoState)]
    ELSE [c \in {"c1"} |-> Channel(TRUE, remote.state)]

RemoteEmitterHasRoom == Len(remote.emitter) < MaxPropagationBurstSize

\* pA: CreateChannel("c1")
RemoteCreateChannel ==
    /\ remote.state = NoState
    /\ RemoteEmitterHasRoom
    /\ LET cs == RemoteInitialize("c1")
       IN  remote' = [remote EXCEPT !.state = cs,
                                    !.emitter = EmitterAdd(@, RemotePublished("c1", cs))]
    /\ UNCHANGED remoteQuiet

\* Channel.AddFile at pA
RemoteAddFile(cs, file) ==
    [cs EXCEPT !.seqNum = @ + 1, !.files = @ \cup {file}]

\* pA's channel adopts the state cs it has built and publishes it
RemoteMutate(cs) ==
    /\ remote.state # NoState
    /\ remote.state.seqNum < MaxSeq
    /\ RemoteEmitterHasRoom
    /\ remote' = [remote EXCEPT !.state = cs,
                                !.emitter = EmitterAdd(@, RemotePublished("c1", cs))]
    /\ UNCHANGED remoteQuiet

\* pA: AddMemberToChan("c1", member)
RemoteAddMemberToChan(member) == RemoteMutate(RemoteAddMember(remote.state, member))

\* pA: AddFileToChan("c1", file)
RemoteAddFileToChan(file) == RemoteMutate(RemoteAddFile(remote.state, file))

\* pA's discovery: the peer pC joins or leaves pA's alive set
RemoteMembershipChange ==
    /\ remote' = [remote EXCEPT !.alive = IF "pC" \in @ THEN @ \ {"pC"} ELSE @ \cup {"pC"}]
    /\ UNCHANGED remoteQuiet

\* the message this node receives when pA sends it the emitted message e
Received(e) == Msg("state", CHAN_ONLY, e.channel, "pA", e.cs, NoInfo)

\* pA: sendGossipBatch, the burst of its emitter; what it sends to this
\* node is on the wire
RemoteSendGossipBatch ==
    /\ remote.emitter # <<>>
    /\ \E log \in gossipBatch(remote.emitter, remote.alive, RemoteChannels) :
         remote' = [remote EXCEPT
                      !.emitter = Requeue(@),
                      !.wire = @ \cup {Received(l.e) :
                                         l \in {x \in Range(log) :
                                                   selfPKIid \in Range(x.peers)}}]
    /\ UNCHANGED remoteQuiet

\* pull reconciliation at pA: it sends a pull request to the member pB
RemotePullRequest ==
    /\ selfPKIid \in remote.state.members \cap remote.alive
    /\ remote' = [remote EXCEPT !.wire = @ \cup
                     {Msg("statePullReq", CHAN_ONLY, "c1", "pA",
                          [NoState EXCEPT !.chainMac = remote.state.chainMac], NoInfo)}]
    /\ UNCHANGED remoteQuiet

\* pull reconciliation at this node, once it is in c1: pA answers its pull
\* request with the state pA holds
RemotePullResponse ==
    /\ "c1" \in DOMAIN channels
    /\ remote.state # NoState
    /\ remote' = [remote EXCEPT !.wire = @ \cup
                     {Msg("statePullRes", CHAN_ONLY, "c1", "pA", remote.state, NoInfo)}]
    /\ UNCHANGED remoteQuiet

\* the states pA's channel can hold
RemoteStates ==
    {[RemoteInitialize("c1") EXCEPT !.seqNum = n, !.members = ms \cup {"pA"}, !.files = fs] :
        n \in 1..MaxSeq, ms \in SUBSET Peers, fs \in SUBSET Files}

\* the messages pA can send to this node
WireMsgs ==
    {Msg(k, CHAN_ONLY, "c1", "pA", cs, NoInfo) :
        k \in {"state", "statePullRes"}, cs \in RemoteStates}
    \cup {Msg("statePullReq", CHAN_ONLY, "c1", "pA",
               [NoState EXCEPT !.chainMac = GenerateMAC("pA", "c1")], NoInfo)}

\* acceptMessages: the message m pA sent arrives
Deliver(m) == m \in remote.wire /\ handleMessage(m)

\* gossipService.SelfChannelInfo: the channel's state, NoState for nil
SelfChannelInfo(chans, chainID) ==
    IF getChannelByChainID(chans, chainID) = NoChannel
    THEN NoState
    ELSE chans[chainID].state

\* the two nodes after their bootstrap: each has the other in its alive set
InitPropagate ==
    /\ stopFlag = 0
    /\ channels = [c \in {} |-> Channel(FALSE, NoState)]
    /\ chainStateMsgStore = {}
    /\ emitter = <<>>
    /\ stopping = 0
    /\ adopted = [mac \in {} |-> 0]
    /\ last = Idle
    /\ InitJoin /\ InitShutdown /\ InitDiscovery
    /\ remote = [NoRemote EXCEPT !.alive = {selfPKIid, "pC"}]

NextPropagate ==
    \/ RemoteCreateChannel
    \/ \E member \in Senders \cup {selfPKIid} : RemoteAddMemberToChan(member)
    \/ \E file \in Files : RemoteAddFileToChan(file)
    \/ RemoteMembershipChange
    \/ RemoteSendGossipBatch
    \/ RemotePullRequest
    \/ RemotePullResponse
    \/ \E m \in WireMsgs : Deliver(m)
    \/ sendGossipBatch
    \/ Expire

\* the emitters burst and the transport delivers
FairPropagate ==
    /\ WF_vars(RemoteSendGossipBatch)
    /\ \A m \in WireMsgs : WF_vars(Deliver(m))
    /\ WF_vars(sendGossipBatch)

SpecPropagate == InitPropagate /\ [][NextPropagate]_vars /\ FairPropagate

----------------------------------------------------------------------------
(* Bootstrap of two nodes.  The peer pA is configured with this node's      *)
(* endpoint as its bootstrap peer; this node has no bootstrap peers, so its *)
(* own connect2BootstrapPeers does nothing.  pA's alive messages carry its  *)
(* identity: the nodes have just started.                                   *)

\* the peers behind the endpoints pA is configured with
RemoteBootstrapPeers == {selfPKIid}

\* pA: connect2BootstrapPeers.  The handshake opens pA's connection to the
\* peer and yields its identity; discovery adds the PKI-id of that identity
RemoteConnect2BootstrapPeers ==
    /\ ~toDie
    /\ \E p \in RemoteBootstrapPeers :
         /\ p \notin remote.alive
         /\ remote' = [remote EXCEPT !.alive = @ \cup {pkiIdOf(IdentityOf(p))}]
    /\ conns' = conns \cup {"pA"}
    /\ UNCHANGED <<stopFlag, channels, chainStateMsgStore, emitter, stopping, adopted, last,
                   joinVars, shutdownVars, callers,
                   idMapper, aliveSet, deadSet, peerTS, age, seenTS>>

\* pA: syncDiscovery, disc.InitiateSync: a membership request with pA's
\* alive message as self-information to the alive peers
RemoteInitiateSync ==
    /\ selfPKIid \in remote.alive
    /\ remote' = [remote EXCEPT !.wire = @ \cup
                     {Msg("memReq", EMPTY, NoChannel, "pA", NoState, "pA")}]
    /\ UNCHANGED remoteQuiet

\* pA: its periodic alive message, gossiped to the alive peers
RemoteGossipAlive ==
    /\ selfPKIid \in remote.alive
    /\ remote' = [remote EXCEPT !.wire = @ \cup
                     {Msg("alive", EMPTY, NoChannel, "pA", NoState, NoInfo)}]
    /\ UNCHANGED remoteQuiet

\* the discovery messages pA can send to this node
BootstrapMsgs ==
    {Msg("memReq", EMPTY, NoChannel, "pA", NoState, "pA"),
     Msg("alive", EMPTY, NoChannel, "pA", NoState, NoInfo)}

\* forwardDiscoveryMsg is in its send on the unbuffered incChan
InIncChan == last.op = "handleMessage" /\ last.forwarded

\* acceptMessages: the message m pA sent arrives, unless the loop is still
\* in forwardDiscoveryMsg
DeliverDiscovery(m) ==
    /\ m \in remote.wire
    /\ ~InIncChan
    /\ handleMessage(m)

\* discovery receives from incChan and handles the alive message: the
\* self-information of a membership request, or the alive message itself
DiscoveryHandles ==
    /\ InIncChan
    /\ \E ts \in PeerTimes :
         handleAliveMsg(AliveMsg(last.m.conn, ts, IdentityOf(last.m.conn),
                                 IdentityOf(last.m.conn), last.m.conn))

\* time passes and the sweeper runs, between two messages
BootstrapTick == ~InIncChan /\ Tick

BootstrapSweep == ~InIncChan /\ Sweep

NextBootstrap ==
    \/ RemoteConnect2BootstrapPeers
    \/ RemoteInitiateSync
    \/ RemoteGossipAlive
    \/ \E m \in BootstrapMsgs : DeliverDiscovery(m)
    \/ DiscoveryHandles
    \/ BootstrapTick
    \/ BootstrapSweep

\* connect2BootstrapPeers and syncDiscovery are goroutines that run, the
\* transport delivers, discovery reads its inbound channel
FairBootstrap ==
    /\ WF_vars(RemoteConnect2BootstrapPeers)
    /\ WF_vars(RemoteInitiateSync)
    /\ \A m \in BootstrapMsgs : WF_vars(DeliverDiscovery(m))
    /\ WF_vars(DiscoveryHandles)

SpecBootstrap == Init /\ [][NextBootstrap]_vars /\ FairBootstrap

----------------------------------------------------------------------------
(* The claims *)

Handling == last'.op = "handleMessage"

RolesKept ==
    /\ DOMAIN channels' = DOMAIN channels
    /\ \A c \in DOMAIN channels : channels'[c].leader = channels[c].leader

\* C1: when the dedup store holds a state of a chainMac, handling a chain
\* state of that chainMac with a lower seqNum makes Add return false, the
\* message is delivered to no channel, and the channels and the store stay
\* as they were.
C1_StaleStateRejected ==
    [][(/\ Handling
        /\ IsChainStateMsg(last'.m)
        /\ \E e \in chainStateMsgStore :
              e.mac = last'.m.cs.chainMac /\ last'.m.cs.seqNum < e.seqNum)
       => (/\ ~last'.added
           /\ last'.target = NoChannel
           /\ channels' = channels
           /\ chainStateMsgStore' = chainStateMsgStore)]_vars

\* a tag-legal replay of a lower seqNum was handled while the store and the
\* node's channel hold a higher one
C1_Witness ==
    /\ last.op = "handleMessage" /\ stopFlag = 0
    /\ IsChainStateMsg(last.m) /\ last.m.tag = CHAN_ONLY /\ last.m.channel # NoChannel
    /\ ~last.added
    /\ \E e \in chainStateMsgStore :
          e.mac = last.m.cs.chainMac /\ last.m.cs.seqNum < e.seqNum
    /\ \E c \in DOMAIN channels :
          /\ channels[c].state.chainMac = last.m.cs.chainMac
          /\ channels[c].state.seqNum > last.m.cs.seqNum

\* C2 as claimed: the local seqNum of every joined channel is the highest
\* seqNum ever validated and adopted at this node for its chainMac.
C2_LocalSeqIsMaxAdopted ==
    \A c \in DOMAIN channels :
        channels[c].state # NoState =>
            channels[c].state.seqNum = adopted[channels[c].state.chainMac]

\* C2 as amended: handling a message never lowers the local seqNum of a
\* registered channel; it changes a channel's state only by adopting the
\* delivered state, whose seqNum is strictly higher.
C2_HandlingNeverLowersSeq ==
    [][Handling =>
        /\ \A c \in DOMAIN channels :
              /\ c \in DOMAIN channels'
              /\ channels'[c].state.seqNum >= channels[c].state.seqNum
              /\ channels'[c].state # channels[c].state =>
                    /\ last'.target = c
                    /\ channels'[c].state = last'.m.cs
                    /\ last'.m.cs.seqNum > channels[c].state.seqNum
        /\ \A c \in DOMAIN channels' \ DOMAIN channels :
              channels'[c].state \in {NoState, last'.m.cs}]_vars

\* a state or pull response older than the channel's state was delivered to
\* the channel (out of order) and the channel kept the newer one
C2_Witness ==
    /\ last.op = "handleMessage"
    /\ last.m.content \in {"state", "statePullRes"}
    /\ last.target \in DOMAIN channels
    /\ last.m.cs.chainMac = channels[last.target].state.chainMac
    /\ last.m.cs.envOK /\ last.m.cs.infoOK /\ last.m.cs.signer = last.m.cs.leader
    /\ last.m.cs.seqNum < channels[last.target].state.seqNum

\* the members of the channel an emitted chain state belongs to: those the
\* message declares, and those of the node's channel of that chainID
ChannelMembersOf(e) ==
    e.members \cup (IF e.channel \in DOMAIN channels
                    THEN channels[e.channel].state.members
                    ELSE {})

Sending == last.op \in {"gossipBatch", "Stop"}

\* C3 as claimed: every chain state gossipBatch sends goes to members of its
\* channel only.
C3_RecipientsAreChannelMembers ==
    Sending =>
        \A i \in DOMAIN last.sent :
            last.sent[i].e.content = "state" =>
                Range(last.sent[i].peers) \subseteq ChannelMembersOf(last.sent[i].e)

SignatureValid(m) ==
    m.content \in {"state", "statePullRes"} => (m.cs.envOK /\ m.cs.signer = m.cs.leader)

\* C5 as claimed: a message handleMessage acts on has a verified signature,
\* unless it is a membership request.
C5_AcceptedOnlyIfVerified ==
    (/\ last.op = "handleMessage"
     /\ (last.emitted \/ last.added \/ last.target # NoChannel \/ last.forwarded))
    => (SignatureValid(last.m) \/ last.m.content = "memReq")

TagIllegal(m) ==
    \/ /\ m.content \in {"state", "statePullReq", "statePullRes"}
       /\ (m.tag # CHAN_ONLY \/ m.channel = NoChannel)
    \/ /\ m.content \in {"alive", "memReq", "memRes"}
       /\ m.tag # EMPTY

\* C6: a message whose tag is illegal for its content has no effect: the
\* emitter, the store and the channels stay as they were, no channel is
\* handed the message and discovery does not get it.
C6_IllegalTagHasNoEffect ==
    [][(Handling /\ TagIllegal(last'.m))
       => (/\ UNCHANGED <<channels, chainStateMsgStore, emitter, adopted>>
           /\ ~last'.emitted /\ ~last'.added /\ ~last'.joined
           /\ last'.target = NoChannel
           /\ ~last'.forwarded)]_vars

\* a chain state with an illegal tag was handled by a running node whose
\* channel of that chainMac holds an older state
C6_Witness ==
    /\ last.op = "handleMessage" /\ stopFlag = 0
    /\ last.m.content = "state" /\ TagIllegal(last.m)
    /\ \E c \in DOMAIN channels :
          /\ channels[c].state.chainMac = last.m.cs.chainMac
          /\ channels[c].state.seqNum < last.m.cs.seqNum

SelfDeclared(m) == m.cs.infoOK /\ selfPKIid \in m.cs.members

C8_RestrictedOnlyToExistingChannel ==
    [][(Handling /\ last'.m.content \in {"statePullReq", "statePullRes"}) =>
        /\ RolesKept
        /\ UNCHANGED <<chainStateMsgStore, emitter>>
        /\ ~last'.emitted /\ ~last'.added /\ ~last'.joined /\ ~last'.forwarded
        /\ last'.target # NoChannel =>
              /\ last'.target \in DOMAIN channels
              /\ channels[last'.target].state.chainMac = last'.m.cs.chainMac
        /\ \A c \in DOMAIN channels :
              c # last'.target => channels'[c] = channels[c]]_vars

\* a pull response was delivered to the channel of its chainMac, which
\* adopted its state
C8_Witness ==
    /\ last.op = "handleMessage" /\ last.m.content = "statePullRes"
    /\ last.target \in DOMAIN channels
    /\ channels[last.target].state = last.m.cs

\* C9: a membership request reaches discovery only if its self-information
\* parses, is an alive message and names the peer of the connection; alive
\* messages and membership responses with a legal tag reach it as they are.
C9_MemReqForwardedOnlyIfHandshakeMatches ==
    last.op = "handleMessage" =>
        (last.forwarded <=>
            /\ stopFlag = 0 /\ stopping = 0
            /\ last.m.content \in {"alive", "memRes", "memReq"}
            /\ last.m.tag = EMPTY
            /\ last.m.content = "memReq" =>
                  /\ last.m.selfInfo \notin {"unparsable", "notAlive"}
                  /\ last.m.selfInfo = last.m.conn)

\* a tag-legal membership request whose self-information is the alive
\* message of another peer than the connection's was handled by a running
\* node and not forwarded
C9_Witness ==
    /\ last.op = "handleMessage" /\ stopFlag = 0
    /\ last.m.content = "memReq" /\ last.m.tag = EMPTY
    /\ last.m.selfInfo \in Peers /\ last.m.selfInfo # last.m.conn
    /\ ~last.forwarded

Initializing == last'.op = "InitializeChannel"

\* C10 as claimed: whenever InitializeChannel returns an error, the channel
\* registry is as it was before the call.
C10_AnyErrorLeavesRegistry ==
    [][(Initializing /\ last'.err # "nil") => channels' = channels]_vars

\* the errors InitializeChannel itself finds, before it joins the channel
PreJoinErrors ==
    {"no-chain-id", "stopping", "mac-mismatch", "parse", "signature", "format",
     "not-leader"}

\* C10 as amended: a chainMac other than the MAC of the local PKI-id and the
\* chainID is an error, and on every error InitializeChannel finds itself
\* (the six named in the claim, and a malformed ChainStateInfo) nothing
\* changes.
C10_OwnErrorsLeaveRegistry ==
    [][Initializing =>
        /\ last'.mac # GenerateMAC(selfPKIid, last'.chainID) =>
              (last'.err \in {"no-chain-id", "stopping", "mac-mismatch"}
               /\ channels' = channels)
        /\ (/\ last'.chainID # NoChannel /\ stopFlag = 0
            /\ last'.mac # GenerateMAC(selfPKIid, last'.chainID))
           => last'.err = "mac-mismatch"
        /\ last'.err \in PreJoinErrors =>
              UNCHANGED <<channels, chainStateMsgStore, emitter, adopted>>]_vars

\* InitializeChannel was called at a running node with the chain state of
\* another leader and returned the MAC error
C10_Witness ==
    /\ last.op = "InitializeChannel" /\ stopFlag = 0
    /\ last.chainID # NoChannel
    /\ last.mac # GenerateMAC(selfPKIid, last.chainID)
    /\ last.err = "mac-mismatch"
    /\ DOMAIN channels = {}

Mutating == last'.op \in {"AddMemberToChan", "AddFileToChan"}

\* C11: CreateChannel returns, and installs, a state with seqNum 1 whose
\* leader is this node and whose only member is this node; a successful
\* AddMemberToChan or AddFileToChan raises the channel's seqNum by exactly
\* one and returns the new state, which holds the added member or file and
\* everything the state held before.
C11_CreateAndMutateSeqNum ==
    [][/\ (last'.op = "CreateChannel" /\ last'.err = "nil") =>
            /\ last'.ret.seqNum = 1
            /\ last'.ret.leader = selfPKIid
            /\ last'.ret.members = {selfPKIid}
            /\ last'.ret.chainMac = GenerateMAC(selfPKIid, last'.chainID)
            /\ channels'[last'.chainID].state = last'.ret
       /\ (Mutating /\ last'.err = "nil") =>
            /\ last'.chainID \in DOMAIN channels
            /\ last'.ret.seqNum = channels[last'.chainID].state.seqNum + 1
            /\ channels'[last'.chainID].state = last'.ret
            /\ last'.ret.leader = channels[last'.chainID].state.leader
            /\ last'.op = "AddMemberToChan" =>
                  /\ last'.ret.members = channels[last'.chainID].state.members \cup {last'.arg}
                  /\ last'.ret.files = channels[last'.chainID].state.files
            /\ last'.op = "AddFileToChan" =>
                  /\ last'.ret.files = channels[last'.chainID].state.files \cup {last'.arg}
                  /\ last'.ret.members = channels[last'.chainID].state.members]_vars

\* AddMemberToChan of another peer on the channel this node created
\* returned seqNum 2 with both as members
C11_Witness ==
    /\ last.op = "AddMemberToChan" /\ last.err = "nil"
    /\ last.arg = "pA"
    /\ last.ret.seqNum = 2
    /\ last.ret.members = {selfPKIid, "pA"}
    /\ last.ret.leader = selfPKIid

\* C12: AddMemberToChan and AddFileToChan at a channel joined as follower
\* return the not-leader error, change nothing and publish nothing; for a
\* chainID with no channel they return an error and create no channel.
C12_OnlyLeaderMutates ==
    [][Mutating =>
        /\ (last'.chainID \in DOMAIN channels /\ ~channels[last'.chainID].leader) =>
              /\ last'.err = "not-leader"
              /\ UNCHANGED <<channels, emitter, chainStateMsgStore>>
        /\ last'.chainID \notin DOMAIN channels =>
              /\ last'.err \notin {"nil", "not-leader"}
              /\ UNCHANGED <<channels, emitter, chainStateMsgStore>>]_vars

\* AddMemberToChan was refused at a channel this node follows, which holds
\* the leader's state
C12_Witness ==
    /\ last.op = "AddMemberToChan" /\ last.err = "not-leader"
    /\ last.chainID \in DOMAIN channels
    /\ ~channels[last.chainID].leader
    /\ channels[last.chainID].state.leader = "pA"
    /\ last.arg \notin channels[last.chainID].state.members

\* C13: a channel keeps the role it was created with for as long as it is
\* registered, whatever is called or received.
C13_RoleIsFixed ==
    [][\A c \in DOMAIN channels \cap DOMAIN channels' :
          channels'[c].leader = channels[c].leader]_vars

\* CreateChannel was called for a chainID this node follows, and it still
\* follows
C13_Witness ==
    /\ last.op = "CreateChannel" /\ last.chainID \in DOMAIN channels
    /\ ~channels[last.chainID].leader
    /\ channels[last.chainID].state.leader = "pA"

\* C14: the registry holds at most one channel instance for a chainID,
\* however CreateChannel, InitializeChannel, CloseChannel and the lookup and
\* the join of handleMessage interleave.
C14_OneInstancePerChain ==
    \A i, j \in registry : i.chainID = j.chainID => i = j

\* handleMessage found no channel at its lookup, another goroutine created
\* the channel before its join, and the join returned that instance
C14_Witness ==
    /\ handler.pc = "idle" /\ handler.result = "existing" /\ ~handler.known
    /\ \E i \in registry : i.chainID = handler.chainID /\ i.leader

\* the order of Stop as the specification gives it
ClaimedStopOrder ==
    <<"flag", "adapter", "discovery", "channels", "broadcast", "emitter",
      "demux", "wait", "transport">>

\* C15: Stop sets the flag, closes the discovery adapter, stops discovery,
\* stops the channels, broadcasts on toDieChan, stops the emitter, closes the
\* demultiplexer, waits for the loops and stops the transport, in this order;
\* when the transport is stopped no loop counted in stopSignal still runs.
C15_StopOrder ==
    /\ Len(stopLog) <= Len(ClaimedStopOrder)
    /\ stopLog = SubSeq(ClaimedStopOrder, 1, Len(stopLog))
    /\ (Len(stopLog) >= 1) = (stopFlag = 1)
    /\ (Len(stopLog) >= 2) => stopping = 1
    /\ (Len(stopLog) < 5) => toDieChan = 0 /\ \A g \in Selecting : loops[g] \notin {"holding"}
    /\ Done("transport") => \A g \in CountedLoops : loops[g] = "done"

\* Stop has returned after waiting for loops that took messages during
\* the shutdown
C15_Witness ==
    /\ StopAt = "returned"
    /\ presumedDead > 0
    /\ \A g \in CountedLoops : loops[g] = "done"

\* C16: once Stop has begun, every loop (acceptMessages, handlePresumedDead,
\* syncDiscovery, the Accept forwarders) eventually exits and Stop returns,
\* also when the presumedDead queue, the discovery inbound channel or an
\* Accept output queue is not being drained.
C16_ShutdownTerminates ==
    Done("flag") ~> (StopAt = "returned" /\ \A g \in Goroutines : loops[g] = "done")

\* C17: the sentinel is never lost (after the broadcast it is on toDieChan
\* or in the hands of one goroutine about to put it back), putting it back
\* never blocks, and every goroutine whose loop selects on toDieChan
\* eventually observes it or has left its loop.
C17_SentinelIsBroadcast ==
    /\ [](Done("broadcast") =>
            toDieChan + Cardinality({g \in Selecting : loops[g] = "holding"}) = 1)
    /\ [](\A g \in Selecting : loops[g] = "holding" => toDieChan = 0)
    /\ \A g \in Selecting : Done("broadcast") ~> loops[g] \in {"holding", "done"}

HandlingAlive == last'.op = "handleAliveMsg"

\* (incNum, seqNum) a is lexicographically greater than b
LexGreater(a, b) == a[1] > b[1] \/ (a[1] = b[1] /\ a[2] > b[2])

\* C18 as stated: the timestamp stored for a peer of the peer table is the
\* greatest timestamp of all alive messages from it that discovery accepted.
C18_StoredIsMaxAccepted ==
    \A p \in Known : peerTS[p] = seenTS[p]

\* C18, amended: while a peer stays in the peer table its stored timestamp
\* never decreases; an alive message from a peer of the table is stored, and
\* marks the peer alive, only if its timestamp is strictly greater than the
\* stored one, and the stored timestamp is then the message's; an equal or
\* smaller timestamp, and a message that is not valid, changes nothing of
\* the peer table.
C18_StoredOnlyGrows ==
    [][/\ \A p \in Known \cap Known' :
            peerTS'[p] = peerTS[p] \/ LexGreater(peerTS'[p], peerTS[p])
       /\ HandlingAlive =>
            LET m == last'.arg
                p == m.pkiID
            IN  /\ last'.err = "stored" =>
                      /\ p \in Known => LexGreater(m.ts, peerTS[p])
                      /\ peerTS'[p] = m.ts
                      /\ p \in aliveSet'
                /\ (p \in Known /\ ~LexGreater(m.ts, peerTS[p])) =>
                      /\ last'.err # "stored"
                      /\ UNCHANGED <<aliveSet, deadSet, peerTS, age>>
                /\ last'.err # "stored" => UNCHANGED <<aliveSet, deadSet, peerTS, age>>]_vars

\* a valid alive message with a lower incNum and a higher seqNum than the
\* stored timestamp was discarded
C18_Witness ==
    /\ last.op = "handleAliveMsg" /\ last.err = "stale"
    /\ last.arg.pkiID \in Known
    /\ last.arg.ts[1] < peerTS[last.arg.pkiID][1]
    /\ last.arg.ts[2] > peerTS[last.arg.pkiID][2]

\* C19: the sweeper moves an alive peer last seen more than
\* aliveExpirationTimeout ago to the dead set, and evicts a peer last seen
\* more than aliveExpirationTimeout x msgExpirationFactor ago, after which
\* Peers() does not contain it; no peer is alive and dead at once; a dead
\* peer whose valid alive message carries a newer timestamp is alive again.
C19_PeerDeath ==
    [][/\ aliveSet' \cap deadSet' = {}
       /\ PeersView' \subseteq aliveSet'
       /\ last'.op = "Sweep" =>
            \A p \in Known :
                /\ age[p] > aliveExpirationTimeout * msgExpirationFactor =>
                        p \notin aliveSet' \cup deadSet' /\ p \notin PeersView'
                /\ (/\ age[p] > aliveExpirationTimeout
                    /\ age[p] <= aliveExpirationTimeout * msgExpirationFactor) =>
                        p \in deadSet' /\ p \notin aliveSet'
                /\ age[p] <= aliveExpirationTimeout =>
                        (p \in aliveSet') = (p \in aliveSet) /\ (p \in deadSet') = (p \in deadSet)
       /\ HandlingAlive =>
            LET m == last'.arg
                p == m.pkiID
            IN  (p \in deadSet /\ last'.err # "invalid" /\ LexGreater(m.ts, peerTS[p])) =>
                    p \in aliveSet' /\ p \notin deadSet' /\ p \in PeersView']_vars

\* a peer whose alive message was accepted has been evicted by the sweeper
\* and is no longer among Peers()
C19_Witness ==
    /\ last.op = "Sweep"
    /\ seenTS["pA"] = <<MaxInc, 1>>
    /\ "pA" \notin Known
    /\ "pA" \notin PeersView

\* C20: when an alive message carries, for a PKI-id bound to an identity,
\* another identity of that PKI-id, Put returns identity-conflict and leaves
\* the binding as it was, ValidateAliveMsg rejects the message, and the
\* connection of the offending peer (the one that delivered the message, or
\* the one of the claimed PKI-id) is closed.
C20_ConflictClosesConnection ==
    [][HandlingAlive =>
         LET m == last'.arg
             p == m.pkiID
         IN  m.put = "identity-conflict" =>
                /\ idMapper'[p] = idMapper[p]
                /\ last'.err = "invalid"
                /\ (m.via \notin conns' \/ p \notin conns')]_vars

Bursting == last'.op = "gossipBatch"

\* C21 as stated: a message leaves the emitter only after its last burst: a
\* buffered message with more than one iteration to go is still buffered
\* after any step, with one iteration less if the step was a burst.
C21_ExactlyIterationsBursts ==
    [][\A i \in DOMAIN emitter :
          emitter[i].iter > 1 =>
             \E j \in DOMAIN emitter' :
                emitter'[j] = [emitter[i] EXCEPT !.iter = IF Bursting THEN @ - 1 ELSE @]]_vars

\* C21, amended: a buffered message has between one and propagateIterations
\* bursts to go; a burst hands every buffered message to gossipBatch, then
\* re-queues those with iterations left, with one less, and evicts the
\* others; no other step but Stop removes or changes a buffered message, and
\* Stop hands the buffer to one last burst and evicts all of it.
C21_BurstsDecrementAndEvict ==
    [][/\ \A i \in DOMAIN emitter' : emitter'[i].iter \in 1..EmitterIterations
       /\ Bursting =>
            /\ Len(last'.sent) = Len(emitter)
            /\ \A i \in DOMAIN emitter : last'.sent[i].e = emitter[i]
            /\ emitter' = SelectSeq([i \in DOMAIN emitter |->
                                       [emitter[i] EXCEPT !.iter = @ - 1]],
                                    LAMBDA e : e.iter > 0)
       /\ last'.op = "Gossip" =>
            /\ Len(emitter') = Len(emitter) + 1
            /\ SubSeq(emitter', 1, Len(emitter)) = emitter
            /\ emitter'[Len(emitter')].iter = EmitterIterations
       /\ (last'.op = "Stop" /\ stopFlag = 0) =>
            /\ Len(last'.sent) = Len(emitter)
            /\ emitter' = <<>>]_vars

\* a burst has re-queued one message for its last burst and evicted another
C21_Witness ==
    /\ last.op = "gossipBatch"
    /\ Len(last.sent) = 2
    /\ Len(emitter) = 1
    /\ emitter[1].iter = 1

\* C24 as claimed: a node adds a given chain state to its emitter a bounded
\* number of times, not every time a copy arrives: handling a copy of a chain
\* state the dedup store already holds adds nothing to the emitter.
C24_KnownStateIsNotRegossiped ==
    [][(/\ Handling
        /\ last'.m # NilMsg
        /\ IsChainStateMsg(last'.m)
        /\ ~StoreAdds(chainStateMsgStore, last'.m.cs)) => emitter' = emitter]_vars

StartedLoops == {"syncDiscovery", "handlePresumedDead", "acceptMessages"}

\* C27 as claimed: syncDiscovery does not call InitiateSync after discovery
\* is stopped, and when Stop has returned every loop start launched has
\* left.
C27_NoLoopOutlivesStop ==
    /\ [][loops["syncDiscovery"] = "syncing" /\ loops'["syncDiscovery"] = "select"
            => ~Done("discovery")]_vars
    /\ [](StopAt = "returned" => \A g \in StartedLoops : loops[g] = "done")

\* how often the calls of Stop have carried out a statement
Times(step) == Cardinality({i \in DOMAIN stopLog : stopLog[i] = step})

\* C26 as claimed: whatever the number of calls of Stop, one after another
\* or side by side, the shutdown sequence runs at most once: incChan is
\* closed at most once, one sentinel is sent on toDieChan, and no call fails.
C26_ShutdownRunsOnce ==
    /\ Times("adapter") <= 1
    /\ Times("broadcast") <= 1
    /\ \A c \in Callers : callers[c] # "panic"

\* C23: when the leader pA has created c1 and added this node (state S2,
\* seqNum 2, members pA and pB), this node, which had not joined c1,
\* eventually receives S2 through gossip, joins c1 as a follower, and
\* SelfChannelInfo("c1") returns the state with members pA and pB; and it
\* never holds c1 as leader or with a state pA has not published.
C23_StateReachesNewMember ==
    /\ []("c1" \in DOMAIN channels =>
            /\ ~channels["c1"].leader
            /\ channels["c1"].state.leader = "pA"
            /\ channels["c1"].state.seqNum \in 2..remote.state.seqNum
            /\ {"pA", "pB"} \subseteq channels["c1"].state.members)
    /\ (remote.state.seqNum = 2 /\ remote.state.members = {"pA", "pB"})
         ~> (/\ "c1" \in DOMAIN channels
             /\ ~channels["c1"].leader
             /\ SelfChannelInfo(channels, "c1").seqNum >= 2
             /\ {"pA", "pB"} \subseteq SelfChannelInfo(channels, "c1").members)

\* this node has just joined c1 on receiving S2 from pA
C23_Witness ==
    /\ last.op = "handleMessage"
    /\ last.joined
    /\ last.m \in remote.wire
    /\ SelfChannelInfo(channels, "c1").seqNum = 2
    /\ SelfChannelInfo(channels, "c1").members = {"pA", "pB"}

\* C22: pA starts with this node's endpoint as bootstrap peer, this node
\* with none; eventually pA's Peers() contains pB and this node's Peers()
\* contains pA.  This node learns pA only from a message that came over
\* pA's connection, with pA's identity bound.
C22_TwoNodeBootstrap ==
    /\ []("pA" \in PeersView => "pA" \in conns /\ idMapper["pA"] = IdentityOf("pA"))
    /\ (remote.alive = {} /\ PeersView = {})
         ~> ("pB" \in remote.alive /\ "pA" \in PeersView)

\* discovery here has just stored pA's alive message, pA knowing pB
C22_Witness ==
    /\ last.op = "handleAliveMsg"
    /\ last.err = "stored"
    /\ "pB" \in remote.alive
    /\ PeersView = {"pA"}

====
